---- MODULE Spec2Model ----
(***************************************************************************)
(* Model of the skills/subagents installer: the sparse-checkout pattern     *)
(* codec and appliers of lib/git.js, the selection prompt of lib/prompts.js *)
(* and the install flows of bin/install.js.                                 *)
(*                                                                          *)
(* A text is a sequence of one-character strings, so that encoding a        *)
(* selection into the pattern file and decoding it again are computed       *)
(* character by character, the way the source does.                         *)
(***************************************************************************)
EXTENDS Integers, Sequences, FiniteSets, TLC

VARIABLES
  kind,          \* resource kind of the target: "Skill" or "Subagent"
  dirExists,     \* the target directory exists
  entries,       \* names of the entries of the target directory that are not .git
  gitDir,        \* <target>/.git exists
  sparseFile,    \* content of <target>/.git/info/sparse-checkout, or NoFile
  pc,            \* position of the running process
  caller,        \* "cli" (bin/install.js flow) or "api" (a direct call of lib/git.js)
  runs,          \* number of completed process runs that entered an applier
  isExisting,    \* promptInstallPath: the path was picked among the detected installations
  installed,     \* installedSkills / installedAgents of the flow
  isManageMode,  \* isManageMode of the flow
  selected,      \* the prompt's Set `selected` in insertion order; later the applier's argument
  keys,          \* keypresses of this run that changed the prompt's selection
  diff,          \* toAdd / toRemove / unchanged of the flow, or NoDiff
  op,            \* applier entered in this run: "none", "Materialize", "Reconcile"
  existedBefore, \* sparseClone*: existedBefore
  shouldAdopt,   \* sparseClone*: shouldAdoptExistingDirectory
  before,        \* the target as it was when the applier was entered
  trace,         \* progress notifications, git commands and fs calls of the applier, in order
  err,           \* error thrown by the applier ("none" when it returned)
  exitCode,      \* process exit code (-1 while running)
  prev,          \* what the last run that entered an applier did to the target
  codecIn,       \* codec check: the identifier to encode
  codecOut,      \* codec check: what decoding its pattern file gave
  shouldGitignore, \* shouldGitignore of the flow
  timer,         \* the prompt's setTimeout(render, 1000) is pending
  command,       \* process.argv[2] ("": none given)
  parentDir,     \* the directory above the target: "absent", "present", or "created" by
                 \* the mkdirSync of the applier call under way
  installType,   \* answer to promptInstallType ("": not asked yet)
  gitignore,     \* content of <cwd>/.gitignore, or NoFile
  flowsDone,     \* what the flows of this run that returned did
  outcome,       \* the last status the process printed ("": none yet)
  upd,           \* update check: the call of check*ForUpdates
  twin,          \* prompt check: two selection prompts fed the same keys
  listing,       \* catalog check: the contents response and the listing made of it
  auth           \* the environment's credentials and the token cache of lib/github-auth.js

vars == <<kind, dirExists, entries, gitDir, sparseFile, pc, caller, runs, isExisting,
          installed, isManageMode, selected, keys, diff, op, existedBefore,
          shouldAdopt, before, trace, err, exitCode, prev, codecIn, codecOut,
          shouldGitignore, timer, command, parentDir, installType, gitignore, flowsDone,
          outcome,
          upd, twin, listing, auth>>

codecVars == <<codecIn, codecOut>>
fsVars == <<dirExists, entries, gitDir, sparseFile>>
flowVars == <<isExisting, installed, isManageMode, selected, keys, diff, shouldGitignore, timer>>
runVars == <<command, parentDir, installType, gitignore, flowsDone>>
auxVars == <<upd, twin, listing, auth>>
applierVars == <<op, existedBefore, shouldAdopt, before, trace, err>>

\* ------------------------------------------------------------------ bounds
\* keypresses that change the selection, in one run
MaxKeys == 2
\* identifiers passed to the update check
MaxIds == 2
\* entries of the repository root in the contents response
MaxEntries == 2
\* process runs on the same target that enter an applier
MaxRuns == 2
\* characters of an identifier stem in the codec specification
MaxStem == 2
\* parts a descriptor file is composed of
MaxParts == 2
\* calls into lib/github-auth.js and changes of the environment in one process
MaxCalls == 3
\* metadata requests made on demand after a listing
MaxFetches == 1
\* characters of a pattern-file line before its suffix in the decode specification
MaxLine == 3

\* -------------------------------------------------------------------- text
NL == "\n"
SL == "/"
Kinds == {"Skill", "Subagent"}

\* '.agent.md'
AgentSuffix == <<".", "a", "g", "e", "n", "t", ".", "m", "d">>

RECURSIVE Join(_, _)
\* Array.prototype.join(sep)
Join(strs, sep) ==
  IF strs = <<>> THEN <<>>
  ELSE IF Len(strs) = 1 THEN strs[1]
  ELSE strs[1] \o <<sep>> \o Join(Tail(strs), sep)

RECURSIVE SplitFrom(_, _, _)
SplitFrom(s, sep, cur) ==
  IF s = <<>> THEN <<cur>>
  ELSE IF Head(s) = sep THEN <<cur>> \o SplitFrom(Tail(s), sep, <<>>)
  ELSE SplitFrom(Tail(s), sep, Append(cur, Head(s)))

\* String.prototype.split(sep): ''.split gives [''], 'a\n'.split gives ['a', '']
Split(s, sep) == SplitFrom(s, sep, <<>>)

\* Array.prototype.filter(Boolean) on strings: drops the empty ones
NonEmpty(s) == s # <<>>
FilterBoolean(strs) == SelectSeq(strs, NonEmpty)

StartsWith(s, c) == s # <<>> /\ s[1] = c
EndsWith(s, suf) ==
  /\ Len(s) >= Len(suf)
  /\ SubSeq(s, Len(s) - Len(suf) + 1, Len(s)) = suf

\* Array.prototype.includes
Includes(seq, x) == \E i \in 1..Len(seq) : seq[i] = x
Range(seq) == {seq[i] : i \in 1..Len(seq)}

RECURSIVE MapSeq(_, _)
MapSeq(F(_), seq) ==
  IF seq = <<>> THEN <<>> ELSE <<F(Head(seq))>> \o MapSeq(F, Tail(seq))

\* ------------------------------------------------------------ pattern codec
\* mutant: the closing slash is left out
SkillPattern_noTrailingSlash(folder) == <<SL>> \o folder

\* folder => `/${folder}/`
SkillPattern(folder) == <<SL>> \o folder \o <<SL>>

\* filename => `/${filename}`
AgentPattern(filename) == <<SL>> \o filename

Pattern(k, id) == IF k = "Skill" THEN SkillPattern(id) ELSE AgentPattern(id)

\* skillFolders.map(...).join('\n')
Patterns(k, ids) == Join(MapSeq(LAMBDA id : Pattern(k, id), ids), NL)

\* writeFileSync(sparseCheckoutPath, patterns + '\n')
FileContent(k, ids) == Patterns(k, ids) \o <<NL>>

StripLeadingSlash(p) == IF StartsWith(p, SL) THEN Tail(p) ELSE p
StripTrailingSlash(p) ==
  IF p # <<>> /\ p[Len(p)] = SL THEN SubSeq(p, 1, Len(p) - 1) ELSE p

\* mutant: only the leading slash is removed
StripSkillLeadingOnly(p) == StripLeadingSlash(p)

\* p.replace(/^\/|\/$/g, ''): one slash off the start, then one off the end of the rest
StripSkill(p) == StripTrailingSlash(StripLeadingSlash(p))

\* p.replace(/^\//, '')
StripAgent(p) == StripLeadingSlash(p)

\* mutant: names holding a dot anywhere are dropped
KeepSkillNoDot(p) == p # <<>> /\ ~Includes(p, ".")
KeepSkill(p) == p # <<>> /\ ~StartsWith(p, ".")
KeepAgent(p) == p # <<>> /\ EndsWith(p, AgentSuffix)

\* content.split('\n').filter(Boolean)
PatternLines(content) == FilterBoolean(Split(content, NL))

\* the file is absent
NoFile == <<"ENOENT">>

\* listCheckedOutSkills, for a target that has .git
listCheckedOutSkills(file) ==
  IF file = NoFile THEN <<>>
  ELSE SelectSeq(MapSeq(StripSkill, PatternLines(file)), KeepSkill)

\* listCheckedOutSubagents, for a target that has .git
listCheckedOutSubagents(file) ==
  IF file = NoFile THEN <<>>
  ELSE SelectSeq(MapSeq(StripAgent, PatternLines(file)), KeepAgent)

listCheckedOut(k, file) ==
  IF k = "Skill" THEN listCheckedOutSkills(file) ELSE listCheckedOutSubagents(file)

\* what `git clone --sparse` and `git sparse-checkout init` leave in the pattern file
InitPatterns == <<"/", "*", NL, "!", "/", "*", "/", NL>>

\* ---------------------------------------------------------------- catalogs
SkillA == <<"a">>
SkillB == <<"b">>
SkillC == <<"c">>
\* installed once, no longer listed upstream
SkillZ == <<"z">>
AgentX == <<"X">> \o AgentSuffix
AgentY == <<"Y">> \o AgentSuffix
AgentZ == <<"Z">> \o AgentSuffix

\* identifiers of fetchAvailableSkills / fetchAvailableSubagents, in listing order
Catalog(k) == IF k = "Skill" THEN <<SkillA, SkillB, SkillC>> ELSE <<AgentX, AgentY>>

\* directory entries a target may hold before the tool touches it
DSStore == ".DS_Store"
ForeignFile == "notes.md"

\* pattern files a version-controlled target may hold when the tool is started
InitFiles(k) ==
  IF k = "Skill"
  THEN { NoFile, <<>>,
         <<"/", ".", "h", "/", NL>>,
         FileContent("Skill", <<SkillA, SkillB>>),
         FileContent("Skill", <<SkillA, SkillA>>),
         FileContent("Skill", <<SkillA, SkillZ>>) }
  ELSE { NoFile, <<>>,
         <<"/", "R", ".", "m", "d", NL>>,
         FileContent("Subagent", <<AgentX, AgentY>>),
         FileContent("Subagent", <<AgentX, AgentZ>>) }

\* selections a direct caller of lib/git.js passes
ApiSelections(k) ==
  IF k = "Skill" THEN {<<SkillA>>, <<SkillA, SkillC>>} ELSE {<<AgentX>>, <<AgentY, AgentX>>}

NoDiff == [toAdd |-> <<>>, toRemove |-> <<>>, unchanged |-> <<>>, computed |-> FALSE]
NoTarget == [dirExists |-> FALSE, entries |-> {}, gitDir |-> FALSE, sparseFile |-> NoFile]
NoPrev == [op |-> "none", sel |-> <<>>, file |-> NoFile, err |-> "none"]

Target == [dirExists |-> dirExists, entries |-> entries, gitDir |-> gitDir,
           sparseFile |-> sparseFile]

\* -------------------------------------------------------------- .gitignore
\* installPath of the flow
InstallPath(k) ==
  IF k = "Skill"
  THEN <<".", "g", "i", "t", "h", "u", "b", "/", "s", "k", "i", "l", "l", "s", "/">>
  ELSE <<".", "g", "i", "t", "h", "u", "b", "/", "a", "g", "e", "n", "t", "s", "/">>

\* String.prototype.includes
Contains(s, sub) ==
  \E i \in 1..(Len(s) - Len(sub) + 1) : SubSeq(s, i, i + Len(sub) - 1) = sub

IsSpace(c) == c \in {" ", NL}
RECURSIVE TrimStart(_)
TrimStart(s) == IF s # <<>> /\ IsSpace(Head(s)) THEN TrimStart(Tail(s)) ELSE s
RECURSIVE TrimEnd(_)
TrimEnd(s) ==
  IF s # <<>> /\ IsSpace(s[Len(s)]) THEN TrimEnd(SubSeq(s, 1, Len(s) - 1)) ELSE s
\* String.prototype.trim
Trim(s) == TrimEnd(TrimStart(s))

\* pathToCheck.replace(/\/$/, '')
NormalizedPath(p) == StripTrailingSlash(p)

isInGitignore(file, p) == file # NoFile /\ Contains(file, NormalizedPath(p))

\* `\n# AI Agent Skills\n${normalizedPath}/\n`
GitignoreEntry(p) ==
  <<"\n", "#", " ", "A", "I", " ", "A", "g", "e", "n", "t", " ", "S", "k", "i", "l", "l", "s", "\n">> \o NormalizedPath(p) \o <<SL, NL>>

\* mutant: the entry is appended without looking for the path
addToGitignore_noCheck(file, p) ==
  IF file # NoFile THEN file \o GitignoreEntry(p) ELSE Trim(GitignoreEntry(p)) \o <<NL>>

\* addToGitignore: the content of .gitignore after the call
addToGitignore(file, p) ==
  IF file # NoFile
  THEN IF Contains(file, NormalizedPath(p)) THEN file ELSE file \o GitignoreEntry(p)
  ELSE Trim(GitignoreEntry(p)) \o <<NL>>

\* a .gitignore that lists both targets
GitignoreBoth ==
  addToGitignore(addToGitignore(NoFile, InstallPath("Skill")), InstallPath("Subagent"))

\* .gitignore files a project may hold when the tool is started
InitIgnores ==
  { NoFile, <<"d", "i", "s", "t", "\n">>, addToGitignore(NoFile, InstallPath("Skill")) }

\* no flow of the run has returned; g is .gitignore as the run found it
NoFlows(g) == [kinds |-> <<>>, changed |-> FALSE, gitignore |-> g]

\* argv[2] values tried
ArgvCommands == {"", "install", "--help", "-h", "--version", "-v", "update"}

\* ---------------------------------------------------------- metadata extraction
\* the backtick, which a string of this notation cannot hold
BT == "^"
\* '```skill' and '```chatagent'
FenceSkill == <<BT, BT, BT, "s", "k", "i", "l", "l">>
FenceChatAgent == <<BT, BT, BT, "c", "h", "a", "t", "a", "g", "e", "n", "t">>
Dashes == <<"-", "-", "-">>
NameKey == <<"n", "a", "m", "e", ":">>
DescriptionKey == <<"d", "e", "s", "c", "r", "i", "p", "t", "i", "o", "n", ":">>
Quotes == {"'", "\""}

\* a regex that did not match: match?.[1] is undefined
NoMatch == <<"undefined">>

\* a || b on match groups: undefined and '' are falsy
OrElse(a, b) == IF a # NoMatch /\ a # <<>> THEN a ELSE b

Least(S) == CHOOSE x \in S : \A y \in S : x <= y
Greatest(S) == CHOOSE x \in S : \A y \in S : x >= y

\* the literal lit stands in s from position i on
LitAt(s, i, lit) ==
  /\ i >= 1
  /\ i + Len(lit) - 1 <= Len(s)
  /\ SubSeq(s, i, i + Len(lit) - 1) = lit

\* the positions where `\s*`, started at p, may stop
WsEnds(s, p) == {j \in p..(Len(s) + 1) : \A k \in p..(j - 1) : IsSpace(s[k])}

\* `\s*\n` from p: the positions after the newline that closes it
AfterWsNewline(s, p) == {j + 1 : j \in {e \in WsEnds(s, p) : e <= Len(s) /\ s[e] = NL}}

\* `---\s*\n([\s\S]*?)\n---` (closed: followed by `\s*\n`) matched with its '---' at p:
\* group 1, under the regex engine's priorities (greedy `\s*`, lazy group)
DashedBlockAt(s, p, closed) ==
  LET Closes(b) ==
        {c \in b..Len(s) : /\ s[c] = NL
                           /\ LitAt(s, c + 1, Dashes)
                           /\ closed => AfterWsNewline(s, c + 4) # {}}
      starts == IF LitAt(s, p, Dashes)
                THEN {b \in AfterWsNewline(s, p + 3) : Closes(b) # {}}
                ELSE {}
  IN IF starts = {} THEN NoMatch
     ELSE LET b == Greatest(starts)
          IN SubSeq(s, b, Least(Closes(b)) - 1)

\* /^---\s*\n([\s\S]*?)\n---/ : group 1 of the match at the top of the content
StandardMatch(content) == DashedBlockAt(content, 1, FALSE)

\* label, `\s*\n`, then the dashed block: group 1 of the leftmost match
FencedMatch(content, label, closed) ==
  LET Opens(i) == {a \in AfterWsNewline(content, i + Len(label)) :
                     DashedBlockAt(content, a, closed) # NoMatch}
      at == {i \in 1..Len(content) : LitAt(content, i, label) /\ Opens(i) # {}}
  IN IF at = {} THEN NoMatch
     ELSE DashedBlockAt(content, Greatest(Opens(Least(at))), closed)

RECURSIVE TakeValue(_)
\* [^'"\n]+ : the longest run of characters that are neither quote nor newline
TakeValue(s) ==
  IF s = <<>> \/ Head(s) \in Quotes \/ Head(s) = NL THEN <<>>
  ELSE <<Head(s)>> \o TakeValue(Tail(s))

\* frontmatterContent.match(/key\s*['"]?([^'"\n]+)['"]?/)?.[1]?.trim() || ''
\* (key ends with its colon): the leftmost key that a value can follow, the longest
\* `\s*`, the quote if there is one, then the value
FieldValue(block, key) ==
  LET Ws(i) == WsEnds(block, i + Len(key))
      Starts(i) ==
        {st \in 1..Len(block) :
           /\ TakeValue(SubSeq(block, st, Len(block))) # <<>>
           /\ \/ st \in Ws(i)
              \/ st - 1 \in Ws(i) /\ block[st - 1] \in Quotes}
      at == {i \in 1..Len(block) : LitAt(block, i, key) /\ Starts(i) # {}}
  IN IF at = {} THEN <<>>
     ELSE Trim(TakeValue(SubSeq(block, Greatest(Starts(Least(at))), Len(block))))

NoMetadata == [name |-> <<>>, description |-> <<>>]

Fields(frontmatterContent) ==
  IF frontmatterContent = NoMatch \/ frontmatterContent = <<>>
  THEN NoMetadata
  ELSE [name |-> FieldValue(frontmatterContent, NameKey),
        description |-> FieldValue(frontmatterContent, DescriptionKey)]

\* parseSkillFrontmatter: the ```skill fence first, the bare block as fallback
parseSkillFrontmatter(content) ==
  Fields(OrElse(FencedMatch(content, FenceSkill, TRUE), StandardMatch(content)))

\* parseSubagentFrontmatter: the bare block first, the ```chatagent fence as fallback
parseSubagentFrontmatter(content) ==
  Fields(OrElse(StandardMatch(content), FencedMatch(content, FenceChatAgent, FALSE)))

\* the parts a descriptor file is composed of: a dashed block, a fenced block wrapping a
\* dashed block, or a line of text; a field left empty has no line in the block
Part(shape, label, name, description, quote) ==
  [shape |-> shape, label |-> label, name |-> name, description |-> description,
   quote |-> quote]

Parts ==
  { Part("dashed", "", <<"A">>, <<"B">>, <<>>),
    Part("dashed", "", <<>>, <<"B">>, <<"'">>),
    Part("fenced", "skill", <<"F">>, <<"G">>, <<>>),
    Part("fenced", "skill", <<"F">>, <<>>, <<"\"">>),
    Part("fenced", "chatagent", <<"F">>, <<"G">>, <<>>),
    Part("fenced", "chatagent", <<>>, <<"G">>, <<"'">>),
    Part("text", "", <<>>, <<>>, <<>>) }

FieldLine(key, value, quote) ==
  IF value = <<>> THEN <<>> ELSE key \o <<" ">> \o quote \o value \o quote \o <<NL>>

DashedText(p) ==
  Dashes \o <<NL>> \o FieldLine(NameKey, p.name, p.quote)
         \o FieldLine(DescriptionKey, p.description, p.quote) \o Dashes \o <<NL>>

PartText(p) ==
  IF p.shape = "dashed" THEN DashedText(p)
  ELSE IF p.shape = "fenced"
  THEN (IF p.label = "skill" THEN FenceSkill ELSE FenceChatAgent) \o <<NL>>
       \o DashedText(p) \o <<BT, BT, BT, NL>>
  ELSE <<"#", " ", "t", NL>>

RECURSIVE DocText(_)
\* the content of the file composed of the parts
DocText(parts) ==
  IF parts = <<>> THEN <<>> ELSE PartText(Head(parts)) \o DocText(Tail(parts))

Documents == UNION {[1..n -> Parts] : n \in 0..MaxParts}

\* ---------------------------------------------------------------- token cache
\* process.env.X when X is not set
Unset == <<"undefined">>
\* execFileSync('gh', ['auth', 'token']) throws
GhFailure == <<"throws">>

\* values tried for GITHUB_TOKEN, GH_TOKEN and the output of `gh auth token`
GithubTokens == {Unset, <<" ">>, <<" ", "g">>}
GhTokens == {Unset, <<>>, <<"h", NL>>}
GhOutputs == {GhFailure, <<NL>>, <<"c", NL>>}
Environments == [GITHUB_TOKEN : GithubTokens, GH_TOKEN : GhTokens, gh : GhOutputs]

normalizeToken(raw) == IF raw = Unset \/ raw = <<>> THEN <<>> ELSE Trim(raw)

readTokenFromGhCli(gh) == IF gh = GhFailure THEN <<>> ELSE normalizeToken(gh)

\* mutant: GH_TOKEN is consulted before GITHUB_TOKEN
ResolveToken_GhTokenFirst(env) ==
  IF normalizeToken(env.GH_TOKEN) # <<>>
  THEN [token |-> normalizeToken(env.GH_TOKEN), reads |-> <<"GH_TOKEN">>]
  ELSE IF normalizeToken(env.GITHUB_TOKEN) # <<>>
  THEN [token |-> normalizeToken(env.GITHUB_TOKEN), reads |-> <<"GH_TOKEN", "GITHUB_TOKEN">>]
  ELSE [token |-> readTokenFromGhCli(env.gh),
        reads |-> <<"GH_TOKEN", "GITHUB_TOKEN", "gh auth token">>]

\* normalizeToken(GITHUB_TOKEN) || normalizeToken(GH_TOKEN) || readTokenFromGhCli() || '':
\* the token, and what the short-circuit evaluation read on the way
ResolveToken(env) ==
  IF normalizeToken(env.GITHUB_TOKEN) # <<>>
  THEN [token |-> normalizeToken(env.GITHUB_TOKEN), reads |-> <<"GITHUB_TOKEN">>]
  ELSE IF normalizeToken(env.GH_TOKEN) # <<>>
  THEN [token |-> normalizeToken(env.GH_TOKEN), reads |-> <<"GITHUB_TOKEN", "GH_TOKEN">>]
  ELSE [token |-> readTokenFromGhCli(env.gh),
        reads |-> <<"GITHUB_TOKEN", "GH_TOKEN", "gh auth token">>]

\* mutant: the cache is not consulted
getGitHubAuthToken_noCache(a) == ResolveToken(a.env)

\* getGitHubAuthToken on the module state a: the cached token once resolved
getGitHubAuthToken(a) ==
  IF a.tokenResolved THEN [token |-> a.cachedToken, reads |-> <<>>] ELSE ResolveToken(a.env)

DefaultUserAgent == "@supercorks/skills-installer"

\* the headers object of getGitHubHeaders for a token
getGitHubHeaders(token) ==
  IF token # <<>>
  THEN [Accept |-> "application/vnd.github.v3+json", UserAgent |-> DefaultUserAgent,
        Authorization |-> <<"Bearer", token>>]
  ELSE [Accept |-> "application/vnd.github.v3+json", UserAgent |-> DefaultUserAgent]

\* the module as loaded: nothing resolved, in environment env
Loaded(env) == [env |-> env, tokenResolved |-> FALSE, cachedToken |-> <<>>, log |-> <<>>]

\* ------------------------------------------------------------ catalog listing
DotGithub == <<".", "g", "i", "t", "h", "u", "b">>
DotClaude == <<".", "c", "l", "a", "u", "d", "e">>
NodeModules == <<"n", "o", "d", "e", "_", "m", "o", "d", "u", "l", "e", "s">>

\* const EXCLUDED_FOLDERS = ['.github', '.claude', 'node_modules']
EXCLUDED_FOLDERS == <<DotGithub, DotClaude, NodeModules>>

\* names the repository root may hold
RootNames ==
  { SkillA, DotGithub, DotClaude, NodeModules, <<".", "x">>, AgentX, AgentSuffix,
    <<"R", ".", "m", "d">> }

\* item.type values of the contents API
ItemTypes == {"dir", "file", "symlink"}

\* contents responses: a directory listing, so no name comes twice
ContentsResponses ==
  { c \in UNION {[1..n -> [name : RootNames, type : ItemTypes]] : n \in 0..MaxEntries} :
      \A i, j \in 1..Len(c) : i # j => c[i].name # c[j].name }

\* mutant: only the exclusion list is consulted
IsSkillDirByListOnly(item) ==
  item.type = "dir" /\ ~Includes(EXCLUDED_FOLDERS, item.name)

\* the filter of fetchAvailableSkills
IsSkillDir(item) ==
  /\ item.type = "dir"
  /\ ~Includes(EXCLUDED_FOLDERS, item.name)
  /\ ~StartsWith(item.name, ".")

\* the filter of fetchAvailableSubagents
IsAgentFile(item) == item.type = "file" /\ EndsWith(item.name, AgentSuffix)

ItemName(item) == item.name

\* description of a listed item until its metadata is loaded
Placeholder ==
  <<"P", "r", "e", "s", "s", " ", "r", "i", "g", "h", "t", " ", "a", "r", "r", "o", "w", " ", "t", "o", " ", "l", "o", "a", "d", " ", "d", "e", "s", "c", "r", "i", "p", "t", "i", "o", "n">>

\* 'No description available'
NoDescription ==
  <<"N", "o", " ", "d", "e", "s", "c", "r", "i", "p", "t", "i", "o", "n", " ", "a", "v", "a", "i", "l", "a", "b", "l", "e">>

\* what fetch() gives for a request: it rejects (transport failure) or resolves to a
\* response with ok, status, statusText and, for a file, its decoded content
Rejected ==
  [rejected |-> TRUE, ok |-> FALSE, status |-> 0, statusText |-> "", content |-> <<>>]
Answer(status, statusText, content) ==
  [rejected |-> FALSE, ok |-> status \in 200..299, status |-> status,
   statusText |-> statusText, content |-> content]

\* answers to the listing request that are not ok
FailedResponses ==
  {Rejected, Answer(403, "rate limit exceeded", <<>>), Answer(404, "Not Found", <<>>)}

\* answers to a request for the descriptor file of an item of kind k
MetaResponses(k) ==
  { Rejected,
    Answer(404, "Not Found", <<>>),
    Answer(200, "OK", DocText(<<Part("fenced", IF k = "Skill" THEN "skill" ELSE "chatagent",
                                     <<"F">>, <<"G">>, <<>>)>>)) }

\* environments the listing runs in: no credential, or GITHUB_TOKEN set
CatalogEnvironments ==
  { [GITHUB_TOKEN |-> Unset, GH_TOKEN |-> Unset, gh |-> GhFailure],
    [GITHUB_TOKEN |-> <<" ", "g">>, GH_TOKEN |-> Unset, gh |-> GhFailure] }

\* the headers literal of the four fetch calls
RequestHeaders ==
  [Accept |-> "application/vnd.github.v3+json", UserAgent |-> DefaultUserAgent]

\* a request for the contents of the repository root (item = <<>>) or of an item's file
Request(item) == [item |-> item, headers |-> RequestHeaders]

\* new Error(`${message}: ${response.status} ${response.statusText}`)
HttpError(message, response) ==
  [message |-> message, status |-> response.status, statusText |-> response.statusText]
\* the error fetch() itself rejects with
TransportError == [message |-> "fetch failed", status |-> 0, statusText |-> ""]
NoError == [message |-> "", status |-> 0, statusText |-> ""]

\* a call of fetchAvailable* whose listing request gets `response` (with `contents` as
\* its body) and whose metadata requests get `meta`
NewListing(response, contents, meta) ==
  [pc |-> "fetch", response |-> response, contents |-> contents, meta |-> meta,
   result |-> <<>>, descriptions |-> <<>>, requests |-> <<>>, error |-> NoError,
   metadata |-> <<>>]

\* the listing request was rejected or answered not ok: the call throws
ListingThrown(l, message) ==
  [l EXCEPT !.pc = "thrown",
            !.requests = <<Request(<<>>)>>,
            !.error = IF l.response.rejected THEN TransportError
                      ELSE HttpError(message, l.response)]

ListingMessage(k) ==
  IF k = "Skill" THEN "Failed to fetch skills list" ELSE "Failed to fetch subagents list"

\* mutant: a response that is not ok is read as an empty listing
ListSkills_emptyOnFailure(l) ==
  IF l.response.rejected
  THEN ListingThrown(l, ListingMessage("Skill"))
  ELSE LET dirs == SelectSeq(l.contents, IsSkillDir)
       IN [l EXCEPT !.pc = "listed",
                    !.requests = <<Request(<<>>)>>,
                    !.result = MapSeq(ItemName, dirs),
                    !.descriptions = [i \in 1..Len(dirs) |-> Placeholder]]

\* fetchAvailableSkills: one request; throws unless response.ok, else filters the
\* contents and maps each directory to an item with the placeholder description
ListSkills(l) ==
  IF l.response.rejected \/ ~l.response.ok
  THEN ListingThrown(l, ListingMessage("Skill"))
  ELSE LET dirs == SelectSeq(l.contents, IsSkillDir)
       IN [l EXCEPT !.pc = "listed",
                    !.requests = <<Request(<<>>)>>,
                    !.result = MapSeq(ItemName, dirs),
                    !.descriptions = [i \in 1..Len(dirs) |-> Placeholder]]

\* fetchSubagentMetadata: the parsed frontmatter, or empty metadata when the request is
\* rejected or answered not ok (nothing is thrown)
fetchSubagentMetadata(response) ==
  IF response.rejected \/ ~response.ok THEN NoMetadata
  ELSE parseSubagentFrontmatter(response.content)

\* fetchAvailableSubagents: the listing request, then fetchSubagentMetadata for every
\* '.agent.md' file; description is metadata.description || 'No description available'
ListSubagents(l) ==
  IF l.response.rejected \/ ~l.response.ok
  THEN ListingThrown(l, ListingMessage("Subagent"))
  ELSE LET files == SelectSeq(l.contents, IsAgentFile)
           m == fetchSubagentMetadata(l.meta)
       IN [l EXCEPT
             !.pc = "listed",
             !.requests = <<Request(<<>>)>> \o [i \in 1..Len(files) |-> Request(files[i].name)],
             !.result = MapSeq(ItemName, files),
             !.descriptions = [i \in 1..Len(files) |->
                                 IF m.description # <<>> THEN m.description
                                 ELSE NoDescription],
             !.metadata = [i \in 1..Len(files) |->
                             [item |-> files[i].name, response |-> l.meta,
                              thrown |-> NoError, value |-> m]]]

\* ------------------------------------------------------------------- Init
\* a process about to start, on a target in any state a project directory can be in
Fresh ==
  /\ pc = "start"
  /\ caller = "cli"
  /\ isExisting = FALSE
  /\ installed = <<>>
  /\ isManageMode = FALSE
  /\ selected = <<>>
  /\ keys = 0
  /\ diff = NoDiff
  /\ op = "none"
  /\ existedBefore = FALSE
  /\ shouldAdopt = FALSE
  /\ before = NoTarget
  /\ trace = <<>>
  /\ err = "none"
  /\ exitCode = -1
  /\ shouldGitignore = FALSE
  /\ timer = FALSE
  /\ outcome = ""

\* the variables of the other specifications, at rest
Idle ==
  /\ upd = <<>>
  /\ twin = <<>>
  /\ listing = <<>>
  /\ auth = <<>>

\* states a target of kind k can be in when the tool is started
TargetStates(k) ==
  { [dirExists |-> FALSE, entries |-> {}, gitDir |-> FALSE, sparseFile |-> NoFile] }
  \cup { [dirExists |-> TRUE, entries |-> e, gitDir |-> FALSE, sparseFile |-> NoFile] :
           e \in SUBSET {DSStore, ForeignFile} }
  \cup { [dirExists |-> TRUE, entries |-> {}, gitDir |-> TRUE, sparseFile |-> f] :
           f \in InitFiles(k) }

Init ==
  /\ kind \in Kinds
  /\ \/ /\ dirExists = FALSE
        /\ entries = {}
        /\ gitDir = FALSE
        /\ sparseFile = NoFile
     \/ /\ dirExists = TRUE
        /\ entries \in SUBSET {DSStore, ForeignFile}
        /\ gitDir = FALSE
        /\ sparseFile = NoFile
     \/ /\ dirExists = TRUE
        /\ entries = {}
        /\ gitDir = TRUE
        /\ sparseFile \in InitFiles(kind)
  /\ runs = 0
  /\ prev = NoPrev
  /\ Fresh
  /\ command = "install"
  /\ parentDir = "present"
  /\ installType = (IF kind = "Skill" THEN "skills" ELSE "subagents")
  /\ gitignore = GitignoreBoth
  /\ flowsDone = NoFlows(gitignore)
  /\ Idle
  /\ codecIn = <<>>
  /\ codecOut = <<>>

\* ------------------------------------------------------------ install flow
\* new Set(array), in insertion order
RECURSIVE SetOf(_)
SetOf(seq) ==
  IF seq = <<>> THEN <<>>
  ELSE LET rest == SetOf(SubSeq(seq, 1, Len(seq) - 1))
           last == seq[Len(seq)]
       IN IF Includes(rest, last) THEN rest ELSE Append(rest, last)

\* Set.prototype.add
SetAdd(set, x) == IF Includes(set, x) THEN set ELSE Append(set, x)
\* Set.prototype.delete
SetDelete(set, x) == SelectSeq(set, LAMBDA y : y # x)

RECURSIVE SetAddAll(_, _)
\* items.forEach(item => selected.add(item.id))
SetAddAll(set, items) ==
  IF items = <<>> THEN set ELSE SetAddAll(SetAdd(set, Head(items)), Tail(items))

\* detectExistingSkillInstallations / detectExistingAgentInstallations, for the target
detectExistingInstallations ==
  IF gitDir
  THEN <<[count |-> Len(listCheckedOut(kind, sparseFile)),
          ids |-> listCheckedOut(kind, sparseFile)]>>
  ELSE <<>>

\* mutant: a path typed by hand is never looked at
InstalledAt_detectedOnly(existing) ==
  IF existing THEN detectExistingInstallations[1].ids ELSE <<>>

\* installedSkills / installedAgents of runSkillsInstall / runSubagentsInstall
InstalledAt(existing) ==
  IF existing
  THEN detectExistingInstallations[1].ids
  ELSE IF gitDir THEN listCheckedOut(kind, sparseFile) ELSE <<>>

\* mutant: any version-controlled target is managed
IsManageModeIfRepo(installedItems) == gitDir

\* const isManageMode = installedSkills.length > 0
IsManageMode(installedItems) == Len(installedItems) > 0

\* mutant: every item is pre-selected, whatever is installed
InitialSelection_allItems(items, installedItems) == SetOf(items)

\* promptItemSelection: the initial value of `selected`
InitialSelection(items, installedItems) ==
  IF Len(installedItems) > 0 THEN SetOf(installedItems) ELSE SetOf(items)

\* case 'space': the item under the cursor leaves or joins `selected`
ToggleItem(set, itemId) ==
  IF Includes(set, itemId) THEN SetDelete(set, itemId) ELSE SetAdd(set, itemId)

\* case 'a': clear when selected.size === items.length, else add every item
ToggleAll(set, items) ==
  IF Len(set) = Len(items) THEN <<>> ELSE SetAddAll(set, items)

\* toAdd, toRemove, unchanged of the flow
ToAdd(sel, inst) == SelectSeq(sel, LAMBDA s : ~Includes(inst, s))
ToRemove(sel, inst) == SelectSeq(inst, LAMBDA s : ~Includes(sel, s))
\* mutant: every installed identifier is reported unchanged
UnchangedAllInstalled(sel, inst) == inst
Unchanged(sel, inst) == SelectSeq(sel, LAMBDA s : Includes(inst, s))

computeDiff(sel, inst) ==
  [toAdd |-> ToAdd(sel, inst), toRemove |-> ToRemove(sel, inst),
   unchanged |-> Unchanged(sel, inst), computed |-> TRUE]

\* the process ends: the flow's catch blocks call process.exit(1); a direct caller of
\* lib/git.js only sees the promise settle
\* mutant: a rejected applier still ends the process with 0
ExitCodeForAlwaysZero(e) == IF caller = "api" THEN -1 ELSE 0
ExitCodeFor(e) == IF caller = "api" THEN -1 ELSE IF e = "none" THEN 0 ELSE 1

\* the process exits with code c after printing status o
Exit(c, o) ==
  /\ pc' = "exited"
  /\ exitCode' = c
  /\ outcome' = o

\* the flow starts: fetchAvailableSkills / fetchAvailableSubagents, then the check for
\* an empty listing; `before` records the target as the flow found it
fetchAvailable ==
  /\ pc = "start"
  /\ \/ /\ pc' = "path"
        /\ UNCHANGED <<exitCode, outcome>>
        /\ listing' = <<>>
     \/ /\ \E r \in FailedResponses :
             listing' = IF kind = "Skill"
                        THEN ListSkills(NewListing(r, <<>>, Rejected))
                        ELSE ListSubagents(NewListing(r, <<>>, Rejected))
        /\ Exit(1, "fetch failed")
     \/ /\ Exit(1, "empty catalog")
        /\ listing' = <<>>
  /\ caller' = "cli"
  /\ before' = Target
  /\ UNCHANGED <<codecVars, upd, twin, auth, runVars, kind, fsVars, runs, flowVars, op, existedBefore,
                 shouldAdopt, trace, err, prev>>

\* detection, promptInstallPath, and the flow up to the selection prompt being shown
promptInstallPath ==
  /\ pc = "path"
  /\ \E existing \in BOOLEAN :
       /\ existing => Len(detectExistingInstallations) > 0
       /\ isExisting' = existing
       /\ installed' = InstalledAt(existing)
  /\ isManageMode' = IsManageMode(installed')
  /\ selected' = InitialSelection(Catalog(kind), installed')
  /\ keys' = 0
  /\ pc' = IF ~isManageMode' /\ ~isInGitignore(gitignore, InstallPath(kind))
           THEN "gitignore"
           ELSE "select"
  /\ UNCHANGED <<codecVars, auxVars, runVars, kind, fsVars, caller, runs, diff, shouldGitignore,
                 timer, applierVars, exitCode, outcome, prev>>

\* mutant: a yes is written to .gitignore at once
promptGitignore_writesNow ==
  /\ pc = "gitignore"
  /\ shouldGitignore' \in BOOLEAN
  /\ gitignore' = IF shouldGitignore'
                  THEN addToGitignore(gitignore, InstallPath(kind))
                  ELSE gitignore
  /\ pc' = "select"
  /\ UNCHANGED <<codecVars, auxVars, command, parentDir, installType, flowsDone, kind, fsVars, caller,
                 runs, isExisting, installed, isManageMode, selected, keys, diff, timer,
                 applierVars, exitCode, outcome, prev>>

\* promptGitignore: asked for a fresh install whose path .gitignore does not hold
promptGitignore ==
  /\ pc = "gitignore"
  /\ shouldGitignore' \in BOOLEAN
  /\ pc' = "select"
  /\ UNCHANGED <<codecVars, auxVars, runVars, kind, fsVars, caller, runs, isExisting, installed,
                 isManageMode, selected, keys, diff, timer, applierVars, exitCode, outcome,
                 prev>>

\* handleKeypress, case 'space', with the cursor on item i
handleKeypress_space(i) ==
  /\ pc = "select"
  /\ keys < MaxKeys
  /\ selected' = ToggleItem(selected, Catalog(kind)[i])
  /\ keys' = keys + 1
  /\ UNCHANGED <<codecVars, auxVars, runVars, kind, fsVars, pc, caller, runs, isExisting, installed, isManageMode, shouldGitignore, timer,
                 diff, applierVars, exitCode, outcome, prev>>

\* handleKeypress, case 'a'
handleKeypress_a ==
  /\ pc = "select"
  /\ keys < MaxKeys
  /\ selected' = ToggleAll(selected, Catalog(kind))
  /\ keys' = keys + 1
  /\ UNCHANGED <<codecVars, auxVars, runVars, kind, fsVars, pc, caller, runs, isExisting, installed, isManageMode, shouldGitignore, timer,
                 diff, applierVars, exitCode, outcome, prev>>

\* mutant: Enter resolves the prompt whatever the selection
handleKeypress_return_resolvesEmpty ==
  /\ pc = "select"
  /\ pc' = "apply"
  /\ UNCHANGED <<codecVars, auxVars, runVars, kind, fsVars, caller, runs, flowVars, applierVars,
                 exitCode, outcome, prev>>

\* handleKeypress, case 'return'
handleKeypress_return ==
  /\ pc = "select"
  /\ \/ /\ Len(selected) = 0
        /\ keys' = keys
        /\ timer' = TRUE
        /\ pc' = pc
     \/ /\ Len(selected) > 0
        /\ keys' = keys
        /\ timer' = timer
        /\ pc' = "apply"
  /\ UNCHANGED <<codecVars, auxVars, runVars, kind, fsVars, caller, runs, isExisting, installed,
                 isManageMode, shouldGitignore, selected, diff, applierVars, exitCode,
                 outcome, prev>>

\* the callback of setTimeout(render, 1000) runs
timerRender ==
  /\ timer
  /\ pc # "exited"
  /\ timer' = FALSE
  /\ UNCHANGED <<codecVars, auxVars, runVars, kind, fsVars, pc, caller, runs, isExisting,
                 installed, isManageMode, shouldGitignore, selected, keys, diff, applierVars,
                 exitCode, outcome, prev>>

\* handleKeypress, Ctrl+C: the rejection reaches main, which exits with 0
handleKeypress_ctrlc ==
  /\ pc = "select"
  /\ Exit(0, "cancelled")
  /\ UNCHANGED <<codecVars, auxVars, runVars, kind, fsVars, caller, runs, flowVars, applierVars, prev>>

\* Ctrl+C in an inquirer prompt: its rejection ('User force closed the prompt ...')
\* reaches main the same way
inquirer_ctrlc ==
  /\ pc \in {"type", "path", "gitignore"}
  /\ Exit(0, "cancelled")
  /\ UNCHANGED <<codecVars, auxVars, runVars, kind, fsVars, caller, runs, flowVars, applierVars, prev>>

\* mutant: a selection equal to the installed set ends the run without the applier
runInstallApply_skipNoChange ==
  /\ pc = "apply"
  /\ diff' = IF isManageMode THEN computeDiff(selected, installed) ELSE NoDiff
  /\ IF isManageMode /\ diff'.toAdd = <<>> /\ diff'.toRemove = <<>>
     THEN Exit(0, "installed")
     ELSE pc' = (IF isManageMode THEN "r_enter" ELSE "m_enter")
          /\ UNCHANGED <<exitCode, outcome>>
  /\ UNCHANGED <<codecVars, auxVars, runVars, kind, fsVars, caller, runs, isExisting, installed, isManageMode, shouldGitignore, timer,
                 selected, keys, applierVars, prev>>

\* the flow after the selection: the diff in manage mode, then the applier is called
runInstallApply ==
  /\ pc = "apply"
  /\ diff' = IF isManageMode THEN computeDiff(selected, installed) ELSE NoDiff
  /\ pc' = IF isManageMode THEN "r_enter" ELSE "m_enter"
  /\ UNCHANGED <<codecVars, auxVars, runVars, kind, fsVars, caller, runs, isExisting, installed, isManageMode, shouldGitignore, timer,
                 selected, keys, applierVars, exitCode, outcome, prev>>

\* a direct call of the exported sparseClone* / update*SparseCheckout, with any selection
apiCall ==
  /\ pc = "start"
  /\ caller' = "api"
  /\ selected' \in ApiSelections(kind)
  /\ pc' \in {"m_enter", "r_enter"}
  /\ UNCHANGED <<codecVars, auxVars, runVars, kind, fsVars, runs, isExisting, installed, isManageMode, shouldGitignore, timer, keys, diff,
                 applierVars, exitCode, outcome, prev>>

\* ----------------------------------------------------------------- applier
\* mutant: appendFileSync, as addSkillsToSparseCheckout uses
appendFileSync(old, data) == IF old = NoFile THEN data ELSE old \o data

\* writeFileSync(path, data): the file holds data, whatever it held
writeFileSync(old, data) == data

\* runInstall after a flow returned: runSubagentsInstall when both kinds were asked for
\* and the skills flow is the one that returned, else main returns and the process ends
FlowReturns ==
  IF installType = "both" /\ kind = "Skill"
  THEN pc' = "next" /\ UNCHANGED <<exitCode, outcome>>
  ELSE Exit(0, "installed")

\* the applier's promise settles with e ("none": it resolved): a direct caller sees just
\* that; the flow exits with 1 on a rejection, else goes on to .gitignore and its return
Settle(e) ==
  /\ err' = e
  /\ IF caller = "api" THEN pc' = "exited" /\ exitCode' = ExitCodeFor(e) /\ outcome' = outcome
     ELSE IF e # "none" THEN Exit(ExitCodeFor(e), "applier failed")
     ELSE IF op = "Materialize" /\ shouldGitignore
          THEN pc' = "ignore" /\ UNCHANGED <<exitCode, outcome>>
          ELSE FlowReturns

\* a step of the try block fails with e: control goes to the catch block
Throw(e) ==
  /\ err' = e
  /\ pc' = "m_catch"
  /\ UNCHANGED <<exitCode, outcome>>

Emit(events) == trace' = trace \o events

\* mutant: mkdirSync creates the target only
mkdirSync_targetOnly(parent) == parent

\* mkdirSync(absolutePath, { recursive: true }): what becomes of the directory above
mkdirSync(parent) == IF parent = "absent" THEN "created" ELSE "present"

\* mutant: .DS_Store counts as content
ShouldAdoptAnyEntry(exists, names) == exists /\ names # {}

\* shouldAdoptExistingDirectory, for a target without .git
ShouldAdopt(exists, names) == exists /\ (names \ {DSStore}) # {}

\* mutant: the directory is created before the precondition is checked
sparseClone_enter_mkdirFirst ==
  /\ pc = "m_enter"
  /\ op' = "Materialize"
  /\ before' = Target
  /\ existedBefore' = dirExists
  /\ dirExists' = TRUE
  /\ parentDir' = mkdirSync(parentDir)
  /\ trace' = <<"fs:mkdir">>
  /\ \/ /\ dirExists /\ gitDir
        /\ shouldAdopt' = FALSE
        /\ Settle("already a git repository")
     \/ /\ ~(dirExists /\ gitDir)
        /\ shouldAdopt' = ShouldAdopt(dirExists, entries)
        /\ pc' = IF shouldAdopt' THEN "a_init" ELSE "m_clone"
        /\ UNCHANGED <<err, exitCode, outcome>>
  /\ UNCHANGED <<codecVars, auxVars, command, installType, gitignore, flowsDone, kind, entries, gitDir,
                 sparseFile, caller, runs, flowVars, prev>>

\* sparseCloneSkills / sparseCloneSubagents up to the try block
sparseClone_enter ==
  /\ pc = "m_enter"
  /\ op' = "Materialize"
  /\ before' = Target
  /\ existedBefore' = dirExists
  /\ \/ /\ dirExists /\ gitDir
        /\ shouldAdopt' = FALSE
        /\ trace' = <<>>
        /\ Settle("already a git repository")
        /\ UNCHANGED <<fsVars, parentDir>>
     \/ /\ ~(dirExists /\ gitDir)
        /\ shouldAdopt' = ShouldAdopt(dirExists, entries)
        /\ dirExists' = TRUE
        /\ parentDir' = mkdirSync(parentDir)
        /\ trace' = <<"fs:mkdir">>
        /\ pc' = IF shouldAdopt' THEN "a_init" ELSE "m_clone"
        /\ UNCHANGED <<entries, gitDir, sparseFile, err, exitCode, outcome>>
  /\ UNCHANGED <<codecVars, auxVars, command, installType, gitignore, flowsDone, kind, caller, runs,
                 flowVars, prev>>

\* git clone --filter=blob:none --no-checkout --sparse <url> . (refused by git unless
\* the directory is empty)
sparseClone_clone ==
  /\ pc = "m_clone"
  /\ \/ /\ entries = {}
        /\ Emit(<<"progress:Initializing sparse clone...", "git:clone">>)
        /\ gitDir' = TRUE
        /\ sparseFile' = InitPatterns
        /\ pc' = "m_config"
        /\ UNCHANGED <<err, exitCode, outcome>>
     \/ /\ Emit(<<"progress:Initializing sparse clone...", "git:clone (failed)">>)
        /\ Throw("clone")
        /\ UNCHANGED <<gitDir, sparseFile>>
  /\ UNCHANGED <<codecVars, auxVars, runVars, kind, dirExists, entries, caller, runs, flowVars, op, existedBefore,
                 shouldAdopt, before, prev>>

\* mutant: sparse-checkout is initialised but the pattern file is not written
configureSparseCheckout_noWrite ==
  /\ pc \in {"m_config", "a_config"}
  /\ \/ /\ Emit(<<"progress:Configuring sparse-checkout...", "git:sparse-checkout init">>)
        /\ sparseFile' = IF sparseFile = NoFile THEN InitPatterns ELSE sparseFile
        /\ pc' = IF pc = "m_config" THEN "m_checkout" ELSE "a_checkout"
        /\ UNCHANGED <<err, exitCode, outcome>>
     \/ /\ Emit(<<"progress:Configuring sparse-checkout...",
                  "git:sparse-checkout init (failed)">>)
        /\ Throw("sparse-checkout init")
        /\ UNCHANGED sparseFile
  /\ UNCHANGED <<codecVars, auxVars, runVars, kind, dirExists, entries, gitDir, caller, runs, flowVars, op,
                 existedBefore, shouldAdopt, before, prev>>

\* configureSparseCheckout, with the progress notification its caller emits first
configureSparseCheckout ==
  /\ pc \in {"m_config", "a_config"}
  /\ \/ /\ Emit(<<"progress:Configuring sparse-checkout...", "git:sparse-checkout init",
                  "fs:write">>)
        /\ sparseFile' = writeFileSync(IF sparseFile = NoFile THEN InitPatterns
                                       ELSE sparseFile,
                                       FileContent(kind, selected))
        /\ pc' = IF pc = "m_config" THEN "m_checkout" ELSE "a_checkout"
        /\ UNCHANGED <<err, exitCode, outcome>>
     \/ /\ Emit(<<"progress:Configuring sparse-checkout...",
                  "git:sparse-checkout init (failed)">>)
        /\ Throw("sparse-checkout init")
        /\ UNCHANGED sparseFile
  /\ UNCHANGED <<codecVars, auxVars, runVars, kind, dirExists, entries, gitDir, caller, runs, flowVars, op,
                 existedBefore, shouldAdopt, before, prev>>

\* git checkout, then onProgress('Done!')
sparseClone_checkout ==
  /\ pc = "m_checkout"
  /\ \/ /\ Emit(<<"progress:Checking out files...", "git:checkout", "progress:Done!">>)
        /\ Settle("none")
     \/ /\ Emit(<<"progress:Checking out files...", "git:checkout (failed)">>)
        /\ Throw("checkout")
  /\ UNCHANGED <<codecVars, auxVars, runVars, kind, fsVars, caller, runs, flowVars, op, existedBefore, shouldAdopt,
                 before, prev>>

\* initializeRepoInExistingDirectory: git init
adopt_init ==
  /\ pc = "a_init"
  /\ \/ /\ Emit(<<"progress:Initializing git repository in existing directory...",
                  "git:init">>)
        /\ gitDir' = TRUE
        /\ pc' = "a_remote"
        /\ UNCHANGED <<err, exitCode, outcome>>
     \/ /\ Emit(<<"progress:Initializing git repository in existing directory...",
                  "git:init (failed)">>)
        /\ Throw("init")
        /\ UNCHANGED gitDir
  /\ UNCHANGED <<codecVars, auxVars, runVars, kind, dirExists, entries, sparseFile, caller, runs, flowVars, op,
                 existedBefore, shouldAdopt, before, prev>>

\* initializeRepoInExistingDirectory: remote set-url, else remote add
adopt_remote ==
  /\ pc = "a_remote"
  /\ \/ /\ Emit(<<"git:remote set-url">>)
        /\ pc' = "a_fetch"
        /\ UNCHANGED <<err, exitCode, outcome>>
     \/ /\ Emit(<<"git:remote set-url (failed)", "git:remote add">>)
        /\ pc' = "a_fetch"
        /\ UNCHANGED <<err, exitCode, outcome>>
     \/ /\ Emit(<<"git:remote set-url (failed)", "git:remote add (failed)">>)
        /\ Throw("remote add")
  /\ UNCHANGED <<codecVars, auxVars, runVars, kind, fsVars, caller, runs, flowVars, op, existedBefore, shouldAdopt,
                 before, prev>>

\* initializeRepoInExistingDirectory: git fetch origin
adopt_fetch ==
  /\ pc = "a_fetch"
  /\ \/ /\ Emit(<<"progress:Fetching repository...", "git:fetch">>)
        /\ pc' = "a_config"
        /\ UNCHANGED <<err, exitCode, outcome>>
     \/ /\ Emit(<<"progress:Fetching repository...", "git:fetch (failed)">>)
        /\ Throw("fetch")
  /\ UNCHANGED <<codecVars, auxVars, runVars, kind, fsVars, caller, runs, flowVars, op, existedBefore, shouldAdopt,
                 before, prev>>

\* initializeRepoInExistingDirectory: getDefaultRemoteBranch (never throws), then
\* git checkout -B <branch> origin/<branch>; back in sparseClone*, onProgress('Done!')
adopt_checkout ==
  /\ pc = "a_checkout"
  /\ \E lsRemote \in {"git:ls-remote", "git:ls-remote (failed)"} :
       \/ /\ Emit(<<lsRemote, "progress:Checking out files...", "git:checkout -B",
                    "progress:Done!">>)
          /\ Settle("none")
       \/ /\ Emit(<<lsRemote, "progress:Checking out files...",
                    "git:checkout -B (failed)">>)
          /\ Throw("checkout -B")
  /\ UNCHANGED <<codecVars, auxVars, runVars, kind, fsVars, caller, runs, flowVars, op, existedBefore, shouldAdopt,
                 before, prev>>

\* rmSync(absolutePath, { recursive: true, force: true }) succeeded
rmSyncTarget ==
  /\ dirExists' = FALSE
  /\ entries' = {}
  /\ gitDir' = FALSE
  /\ sparseFile' = NoFile

\* mutant: a failing cleanup replaces the error being propagated
sparseClone_catch_cleanupErrorWins ==
  /\ pc = "m_catch"
  /\ \/ /\ ~existedBefore
        /\ Emit(<<"fs:rm">>)
        /\ rmSyncTarget
        /\ Settle(err)
     \/ /\ ~existedBefore
        /\ Emit(<<"fs:rm (failed)">>)
        /\ UNCHANGED fsVars
        /\ Settle("rm")
     \/ /\ existedBefore
        /\ UNCHANGED <<fsVars, trace>>
        /\ Settle(err)
  /\ UNCHANGED <<codecVars, auxVars, runVars, kind, caller, runs, flowVars, op, existedBefore, shouldAdopt, before,
                 prev>>

\* mutant: the cleanup does not look at existedBefore
sparseClone_catch_always ==
  /\ pc = "m_catch"
  /\ Emit(<<"fs:rm">>)
  /\ rmSyncTarget
  /\ Settle(err)
  /\ UNCHANGED <<codecVars, auxVars, runVars, kind, caller, runs, flowVars, op, existedBefore, shouldAdopt, before,
                 prev>>

\* the catch block of sparseClone*: clean up what was created, rethrow
sparseClone_catch ==
  /\ pc = "m_catch"
  /\ \/ /\ ~existedBefore
        /\ Emit(<<"fs:rm">>)
        /\ rmSyncTarget
     \/ /\ ~existedBefore
        /\ Emit(<<"fs:rm (failed)">>)
        /\ UNCHANGED fsVars
     \/ /\ existedBefore
        /\ UNCHANGED <<fsVars, trace>>
  /\ Settle(err)
  /\ UNCHANGED <<codecVars, auxVars, runVars, kind, caller, runs, flowVars, op, existedBefore, shouldAdopt, before,
                 prev>>

\* updateSparseCheckout / updateSubagentsSparseCheckout: the precondition
updateSparseCheckout_enter ==
  /\ pc = "r_enter"
  /\ op' = "Reconcile"
  /\ before' = Target
  /\ trace' = <<>>
  /\ \/ /\ ~gitDir
        /\ Settle("not a git repository")
     \/ /\ gitDir
        /\ pc' = "r_pull"
        /\ UNCHANGED <<err, exitCode, outcome>>
  /\ UNCHANGED <<codecVars, auxVars, runVars, kind, fsVars, caller, runs, flowVars, existedBefore, shouldAdopt, prev>>

\* mutant: a failing pull rejects the call
updateSparseCheckout_pull_rethrow ==
  /\ pc = "r_pull"
  /\ \/ /\ Emit(<<"progress:Pulling latest changes...", "git:pull">>)
        /\ pc' = "r_write"
        /\ UNCHANGED <<err, exitCode, outcome>>
     \/ /\ Emit(<<"progress:Pulling latest changes...", "git:pull (failed)">>)
        /\ Settle("pull")
  /\ UNCHANGED <<codecVars, auxVars, runVars, kind, fsVars, caller, runs, flowVars, op, existedBefore, shouldAdopt,
                 before, prev>>

\* git pull, whose failure is ignored
updateSparseCheckout_pull ==
  /\ pc = "r_pull"
  /\ \/ Emit(<<"progress:Pulling latest changes...", "git:pull">>)
     \/ Emit(<<"progress:Pulling latest changes...", "git:pull (failed)">>)
  /\ pc' = "r_write"
  /\ UNCHANGED <<codecVars, auxVars, runVars, kind, fsVars, caller, runs, flowVars, op, existedBefore, shouldAdopt,
                 before, err, exitCode, outcome, prev>>

\* mutant: the notification follows the step it announces
updateSparseCheckout_write_notifyAfter ==
  /\ pc = "r_write"
  /\ Emit(<<"fs:write", "progress:Updating sparse-checkout configuration...">>)
  /\ sparseFile' = writeFileSync(sparseFile, FileContent(kind, selected))
  /\ pc' = "r_apply"
  /\ UNCHANGED <<codecVars, auxVars, runVars, kind, dirExists, entries, gitDir, caller, runs, flowVars, op,
                 existedBefore, shouldAdopt, before, err, exitCode, outcome, prev>>

\* the pattern file is rewritten with the selection
updateSparseCheckout_write ==
  /\ pc = "r_write"
  /\ Emit(<<"progress:Updating sparse-checkout configuration...", "fs:write">>)
  /\ sparseFile' = writeFileSync(sparseFile, FileContent(kind, selected))
  /\ pc' = "r_apply"
  /\ UNCHANGED <<codecVars, auxVars, runVars, kind, dirExists, entries, gitDir, caller, runs, flowVars, op,
                 existedBefore, shouldAdopt, before, err, exitCode, outcome, prev>>

\* mutant: a failing read-tree puts the previous pattern file back
updateSparseCheckout_apply_rollback ==
  /\ pc = "r_apply"
  /\ \/ /\ Emit(<<"progress:Applying changes...", "git:read-tree", "progress:Done!">>)
        /\ Settle("none")
        /\ UNCHANGED sparseFile
     \/ /\ Emit(<<"progress:Applying changes...", "git:read-tree (failed)">>)
        /\ sparseFile' = before.sparseFile
        /\ Settle("read-tree")
  /\ UNCHANGED <<codecVars, auxVars, runVars, kind, dirExists, entries, gitDir, caller, runs, flowVars, op,
                 existedBefore, shouldAdopt, before, prev>>

\* git read-tree -mu HEAD, then onProgress('Done!')
updateSparseCheckout_apply ==
  /\ pc = "r_apply"
  /\ \/ /\ Emit(<<"progress:Applying changes...", "git:read-tree", "progress:Done!">>)
        /\ Settle("none")
     \/ /\ Emit(<<"progress:Applying changes...", "git:read-tree (failed)">>)
        /\ Settle("read-tree")
  /\ UNCHANGED <<codecVars, auxVars, runVars, kind, fsVars, caller, runs, flowVars, op, existedBefore, shouldAdopt,
                 before, prev>>

\* the process has ended; the tool is started again on the same target
nextRun ==
  /\ pc = "exited"
  /\ op = "none" \/ runs + 1 < MaxRuns
  /\ runs' = IF op = "none" THEN runs ELSE runs + 1
  /\ prev' = IF op = "none" THEN prev
             ELSE [op |-> op, sel |-> selected, file |-> sparseFile, err |-> err]
  /\ pc' = "start"
  /\ caller' = "cli"
  /\ isExisting' = FALSE
  /\ installed' = <<>>
  /\ isManageMode' = FALSE
  /\ selected' = <<>>
  /\ keys' = 0
  /\ diff' = NoDiff
  /\ op' = "none"
  /\ existedBefore' = FALSE
  /\ shouldAdopt' = FALSE
  /\ before' = NoTarget
  /\ trace' = <<>>
  /\ err' = "none"
  /\ exitCode' = -1
  /\ shouldGitignore' = FALSE
  /\ timer' = FALSE
  /\ outcome' = ""
  /\ flowsDone' = NoFlows(gitignore)
  /\ listing' = <<>>
  /\ UNCHANGED <<codecVars, upd, twin, auth, command, parentDir, installType, gitignore, kind, fsVars>>

Next ==
  \/ fetchAvailable
  \/ promptInstallPath
  \/ \E i \in 1..Len(Catalog(kind)) : handleKeypress_space(i)
  \/ handleKeypress_a
  \/ handleKeypress_return
  \/ handleKeypress_ctrlc
  \/ inquirer_ctrlc
  \/ timerRender
  \/ runInstallApply
  \/ apiCall
  \/ sparseClone_enter
  \/ sparseClone_clone
  \/ configureSparseCheckout
  \/ sparseClone_checkout
  \/ adopt_init
  \/ adopt_remote
  \/ adopt_fetch
  \/ adopt_checkout
  \/ sparseClone_catch
  \/ updateSparseCheckout_enter
  \/ updateSparseCheckout_pull
  \/ updateSparseCheckout_write
  \/ updateSparseCheckout_apply
  \/ nextRun

Spec == Init /\ [][Next]_vars

\* ---------------------------------------------------- one run of the process
\* a process started with any argument, in a project with any .gitignore; the target
\* is the one of the first flow the user will ask for
InitRun ==
  /\ kind \in Kinds
  /\ \E t \in TargetStates(kind) :
       /\ dirExists = t.dirExists
       /\ entries = t.entries
       /\ gitDir = t.gitDir
       /\ sparseFile = t.sparseFile
  /\ runs = 0
  /\ prev = NoPrev
  /\ caller = "cli"
  /\ isExisting = FALSE
  /\ installed = <<>>
  /\ isManageMode = FALSE
  /\ selected = <<>>
  /\ keys = 0
  /\ diff = NoDiff
  /\ op = "none"
  /\ existedBefore = FALSE
  /\ shouldAdopt = FALSE
  /\ before = NoTarget
  /\ trace = <<>>
  /\ err = "none"
  /\ exitCode = -1
  /\ shouldGitignore = FALSE
  /\ timer = FALSE
  /\ outcome = ""
  /\ pc = "main"
  /\ command \in ArgvCommands
  /\ parentDir \in (IF dirExists THEN {"present"} ELSE {"absent", "present"})
  /\ installType = ""
  /\ gitignore \in InitIgnores
  /\ flowsDone = NoFlows(gitignore)
  /\ Idle
  /\ codecIn = <<>>
  /\ codecOut = <<>>

\* main: the dispatch on argv[2]
main ==
  /\ pc = "main"
  /\ IF command \in {"--help", "-h"} THEN Exit(0, "usage")
     ELSE IF command \in {"--version", "-v"} THEN Exit(0, "version")
     ELSE IF command = "" \/ command = "install"
          THEN pc' = "git_check" /\ UNCHANGED <<exitCode, outcome>>
          ELSE Exit(1, "unknown command")
  /\ UNCHANGED <<codecVars, auxVars, runVars, kind, fsVars, caller, runs, flowVars, applierVars,
                 prev>>

\* runInstall: isGitAvailable
isGitAvailable ==
  /\ pc = "git_check"
  /\ \/ pc' = "type" /\ UNCHANGED <<exitCode, outcome>>
     \/ Exit(1, "git unavailable")
  /\ UNCHANGED <<codecVars, auxVars, runVars, kind, fsVars, caller, runs, flowVars, applierVars,
                 prev>>

\* promptInstallType; the first flow is the skills flow unless only subagents are asked for
promptInstallType ==
  /\ pc = "type"
  /\ installType' \in (IF kind = "Skill" THEN {"both", "skills"} ELSE {"subagents"})
  /\ pc' = "start"
  /\ UNCHANGED <<codecVars, auxVars, command, parentDir, gitignore, flowsDone, kind, fsVars, caller, runs,
                 flowVars, applierVars, exitCode, outcome, prev>>

\* the flow after a successful sparseClone*: if (shouldGitignore) addToGitignore(...)
runInstallIgnore ==
  /\ pc = "ignore"
  /\ gitignore' = addToGitignore(gitignore, InstallPath(kind))
  /\ FlowReturns
  /\ UNCHANGED <<codecVars, auxVars, command, parentDir, installType, flowsDone, kind, fsVars, caller,
                 runs, flowVars, applierVars, prev>>

\* mutant: runSkillsInstall is not awaited
runSubagentsInstall_notAwaited ==
  /\ pc \in {"next", "m_checkout", "a_checkout", "r_apply"}
  /\ installType = "both" /\ kind = "Skill"
  /\ kind' = "Subagent"
  /\ \E t \in TargetStates("Subagent") :
       /\ dirExists' = t.dirExists
       /\ entries' = t.entries
       /\ gitDir' = t.gitDir
       /\ sparseFile' = t.sparseFile
  /\ flowsDone' = [kinds |-> Append(flowsDone.kinds, kind),
                   changed |-> Target # before,
                   gitignore |-> gitignore]
  /\ pc' = "start"
  /\ isExisting' = FALSE
  /\ installed' = <<>>
  /\ isManageMode' = FALSE
  /\ selected' = <<>>
  /\ keys' = 0
  /\ diff' = NoDiff
  /\ shouldGitignore' = FALSE
  /\ op' = "none"
  /\ existedBefore' = FALSE
  /\ shouldAdopt' = FALSE
  /\ before' = NoTarget
  /\ trace' = <<>>
  /\ err' = "none"
  /\ UNCHANGED <<codecVars, auxVars, command, parentDir, installType, gitignore, caller, runs, timer,
                 exitCode, outcome, prev>>

\* runInstall: the skills flow returned and runSubagentsInstall is called; the model
\* turns to the agents target, which the run has not touched yet
runSubagentsInstall ==
  /\ pc = "next"
  /\ kind' = "Subagent"
  /\ \E t \in TargetStates("Subagent") :
       /\ dirExists' = t.dirExists
       /\ entries' = t.entries
       /\ gitDir' = t.gitDir
       /\ sparseFile' = t.sparseFile
  /\ flowsDone' = [kinds |-> Append(flowsDone.kinds, kind),
                   changed |-> Target # before,
                   gitignore |-> gitignore]
  /\ pc' = "start"
  /\ isExisting' = FALSE
  /\ installed' = <<>>
  /\ isManageMode' = FALSE
  /\ selected' = <<>>
  /\ keys' = 0
  /\ diff' = NoDiff
  /\ shouldGitignore' = FALSE
  /\ op' = "none"
  /\ existedBefore' = FALSE
  /\ shouldAdopt' = FALSE
  /\ before' = NoTarget
  /\ trace' = <<>>
  /\ err' = "none"
  /\ UNCHANGED <<codecVars, auxVars, command, parentDir, installType, gitignore, caller, runs, timer,
                 exitCode, outcome, prev>>

NextRun ==
  \/ main
  \/ isGitAvailable
  \/ promptInstallType
  \/ fetchAvailable
  \/ promptInstallPath
  \/ promptGitignore
  \/ \E i \in 1..Len(Catalog(kind)) : handleKeypress_space(i)
  \/ handleKeypress_a
  \/ handleKeypress_return
  \/ handleKeypress_ctrlc
  \/ inquirer_ctrlc
  \/ timerRender
  \/ runInstallApply
  \/ sparseClone_enter
  \/ sparseClone_clone
  \/ configureSparseCheckout
  \/ sparseClone_checkout
  \/ adopt_init
  \/ adopt_remote
  \/ adopt_fetch
  \/ adopt_checkout
  \/ sparseClone_catch
  \/ updateSparseCheckout_enter
  \/ updateSparseCheckout_pull
  \/ updateSparseCheckout_write
  \/ updateSparseCheckout_apply
  \/ runInstallIgnore
  \/ runSubagentsInstall

SpecRun == InitRun /\ [][NextRun]_vars

\* ------------------------------------------------------ prompt specification
\* key.name values tried ("x": a key the switch does not handle)
KeyNames == {"up", "down", "right", "left", "space", "a", "return", "ctrl-c", "x"}

\* what render() prints that depends on the prompt's state: the items flagged
\* '(update)', the 'N items selected' count and its '(N to update)' note
render(p, items, needs) ==
  [flags |-> {i \in 1..Len(items) : items[i] \in needs},
   selectedCount |-> Len(p.selected),
   updateCount |-> Len(SelectSeq(p.selected, LAMBDA id : id \in needs)),
   error |-> FALSE]

Rendered(p, items, needs) == [p EXCEPT !.screen = render(p, items, needs)]

\* promptItemSelection up to its first render()
NewPrompt(items, installedItems, needs) ==
  Rendered([cursor |-> 0,
            selected |-> InitialSelection(items, installedItems),
            expanded |-> {},
            status |-> "active",
            result |-> <<>>,
            screen |-> <<>>], items, needs)

\* mutant: 'a' selects the items that have an update
PromptKey_selectsUpdates(p, key, items, needs) ==
  IF p.status # "active" THEN p
  ELSE IF key = "a"
       THEN Rendered([p EXCEPT !.selected = SelectSeq(items, LAMBDA id : id \in needs)],
                     items, needs)
       ELSE IF key = "return" /\ Len(p.selected) > 0
            THEN [p EXCEPT !.status = "resolved", !.result = p.selected]
            ELSE p

\* handleKeypress; once cleanup() removed the listener a key changes nothing
PromptKey(p, key, items, needs) ==
  IF p.status # "active" THEN p
  ELSE IF key = "ctrl-c" THEN [p EXCEPT !.status = "rejected"]
  ELSE CASE key = "up" ->
              Rendered([p EXCEPT !.cursor = IF p.cursor > 0 THEN p.cursor - 1
                                            ELSE Len(items) - 1], items, needs)
         [] key = "down" ->
              Rendered([p EXCEPT !.cursor = IF p.cursor < Len(items) - 1 THEN p.cursor + 1
                                            ELSE 0], items, needs)
         [] key = "right" ->
              Rendered([p EXCEPT !.expanded = p.expanded \cup {items[p.cursor + 1]}],
                       items, needs)
         [] key = "left" ->
              Rendered([p EXCEPT !.expanded = p.expanded \ {items[p.cursor + 1]}],
                       items, needs)
         [] key = "space" ->
              Rendered([p EXCEPT !.selected = ToggleItem(p.selected, items[p.cursor + 1])],
                       items, needs)
         [] key = "a" ->
              Rendered([p EXCEPT !.selected = ToggleAll(p.selected, items)], items, needs)
         [] key = "return" ->
              IF Len(p.selected) = 0
              THEN [p EXCEPT !.screen.error = TRUE]
              ELSE [p EXCEPT !.status = "resolved",
                             !.result = p.selected,
                             !.screen = [flags |-> {}, selectedCount |-> Len(p.selected),
                                         updateCount |-> 0, error |-> FALSE]]
         [] OTHER -> p

\* installed lists the flow may pass to the prompt
InstalledLists(k) == {listCheckedOut(k, f) : f \in InitFiles(k)}

\* two prompts over the same items and installed list, each with its own
\* itemsNeedingUpdate
InitPrompt ==
  /\ kind \in Kinds
  /\ dirExists = FALSE
  /\ entries = {}
  /\ gitDir = FALSE
  /\ sparseFile = NoFile
  /\ runs = 0
  /\ prev = NoPrev
  /\ Fresh
  /\ command = "install"
  /\ parentDir = "present"
  /\ installType = (IF kind = "Skill" THEN "skills" ELSE "subagents")
  /\ gitignore = NoFile
  /\ flowsDone = NoFlows(gitignore)
  /\ upd = <<>>
  /\ listing = <<>>
  /\ auth = <<>>
  /\ codecIn = <<>>
  /\ codecOut = <<>>
  /\ \E inst \in InstalledLists(kind), needs1, needs2 \in SUBSET Range(Catalog(kind)) :
       twin = [installed |-> inst,
               needs |-> <<needs1, needs2>>,
               p |-> <<NewPrompt(Catalog(kind), inst, needs1),
                       NewPrompt(Catalog(kind), inst, needs2)>>,
               keys |-> 0]

\* one keypress, delivered to both prompts
twinKeypress ==
  /\ twin.keys < MaxKeys
  /\ \E i \in 1..2 : twin.p[i].status = "active"
  /\ \E key \in KeyNames :
       twin' = [twin EXCEPT
                  !.p = <<PromptKey(twin.p[1], key, Catalog(kind), twin.needs[1]),
                          PromptKey(twin.p[2], key, Catalog(kind), twin.needs[2])>>,
                  !.keys = twin.keys + 1]
  /\ UNCHANGED <<codecVars, upd, listing, auth, runVars, kind, fsVars, pc, caller, runs, flowVars,
                 applierVars, exitCode, outcome, prev>>

NextPrompt == twinKeypress

SpecPrompt == InitPrompt /\ [][NextPrompt]_vars

\* ------------------------------------------------ update-check specification
\* identifiers a caller may ask about: listed ones and one no longer listed
CheckableIds(k) ==
  Range(Catalog(k)) \cup (IF k = "Skill" THEN {SkillZ} ELSE {AgentZ})

IdLists(k) == UNION {[1..n -> CheckableIds(k)] : n \in 0..MaxIds}

\* what `git diff --stat` may print when it exits with 0
DiffStdouts == { <<>>, <<NL>>, <<" ", "1", " ", "+", NL>> }

\* a git command that ran: exit status and what runGitCommand resolved with
Ran(cmd, arg, ok, out) == [cmd |-> cmd, arg |-> arg, ok |-> ok, out |-> out]

\* a call of checkSkillsForUpdates / checkSubagentsForUpdates on a target with or
\* without .git
InitUpdates ==
  /\ kind \in Kinds
  /\ dirExists = TRUE
  /\ entries = {}
  /\ gitDir \in BOOLEAN
  /\ sparseFile = NoFile
  /\ runs = 0
  /\ prev = NoPrev
  /\ Fresh
  /\ command = "install"
  /\ parentDir = "present"
  /\ installType = (IF kind = "Skill" THEN "skills" ELSE "subagents")
  /\ gitignore = NoFile
  /\ flowsDone = NoFlows(gitignore)
  /\ twin = <<>>
  /\ listing = <<>>
  /\ auth = <<>>
  /\ codecIn = <<>>
  /\ codecOut = <<>>
  /\ \E ids \in IdLists(kind) :
       upd = [pc |-> "enter", ids |-> ids, i |-> 1, needsUpdate |-> <<>>, log |-> <<>>]

UpdUnchanged ==
  UNCHANGED <<codecVars, twin, listing, auth, runVars, kind, fsVars, pc, caller, runs, flowVars,
              applierVars, exitCode, outcome, prev>>

\* mutant: the fetch is attempted whether .git exists or not
checkForUpdates_enter_noGuard ==
  /\ upd.pc = "enter"
  /\ upd' = [upd EXCEPT !.pc = "fetch"]
  /\ UpdUnchanged

\* if (!existsSync(join(absolutePath, '.git'))) return needsUpdate
checkForUpdates_enter ==
  /\ upd.pc = "enter"
  /\ upd' = [upd EXCEPT !.pc = IF gitDir THEN "fetch" ELSE "returned"]
  /\ UpdUnchanged

\* git fetch origin; a rejection is caught by the outer catch, which returns needsUpdate
checkForUpdates_fetch ==
  /\ upd.pc = "fetch"
  /\ \/ upd' = [upd EXCEPT !.pc = "branch",
                            !.log = Append(@, Ran("fetch", <<>>, TRUE, <<>>))]
     \/ upd' = [upd EXCEPT !.pc = "returned",
                            !.log = Append(@, Ran("fetch", <<>>, FALSE, <<>>))]
  /\ UpdUnchanged

\* git rev-parse --abbrev-ref HEAD; a rejection is caught by the outer catch
checkForUpdates_branch ==
  /\ upd.pc = "branch"
  /\ \/ upd' = [upd EXCEPT !.pc = IF Len(upd.ids) = 0 THEN "returned" ELSE "diff",
                            !.log = Append(@, Ran("rev-parse", <<>>, TRUE, <<"m">>))]
     \/ upd' = [upd EXCEPT !.pc = "returned",
                            !.log = Append(@, Ran("rev-parse", <<>>, FALSE, <<>>))]
  /\ UpdUnchanged

\* mutant: a rejected diff ends the loop
checkForUpdates_diff_stopsOnFailure ==
  /\ upd.pc = "diff"
  /\ LET id == upd.ids[upd.i]
         after == IF upd.i = Len(upd.ids) THEN "returned" ELSE "diff"
     IN \/ \E stdout \in DiffStdouts :
             upd' = [upd EXCEPT
                       !.log = Append(@, Ran("diff", id, TRUE, Trim(stdout))),
                       !.needsUpdate = IF Trim(Trim(stdout)) # <<>> THEN SetAdd(@, id) ELSE @,
                       !.i = @ + 1,
                       !.pc = after]
        \/ upd' = [upd EXCEPT !.log = Append(@, Ran("diff", id, FALSE, <<>>)),
                               !.pc = "returned"]
  /\ UpdUnchanged

\* one round of the loop: git diff HEAD..origin/<branch> --stat -- <id>; runGitCommand
\* resolves with the trimmed stdout; a rejection skips the identifier
checkForUpdates_diff ==
  /\ upd.pc = "diff"
  /\ LET id == upd.ids[upd.i]
         after == IF upd.i = Len(upd.ids) THEN "returned" ELSE "diff"
     IN \/ \E stdout \in DiffStdouts :
             upd' = [upd EXCEPT
                       !.log = Append(@, Ran("diff", id, TRUE, Trim(stdout))),
                       !.needsUpdate = IF Trim(Trim(stdout)) # <<>> THEN SetAdd(@, id) ELSE @,
                       !.i = @ + 1,
                       !.pc = after]
        \/ upd' = [upd EXCEPT !.log = Append(@, Ran("diff", id, FALSE, <<>>)),
                               !.i = @ + 1,
                               !.pc = after]
  /\ UpdUnchanged

NextUpdates ==
  \/ checkForUpdates_enter
  \/ checkForUpdates_fetch
  \/ checkForUpdates_branch
  \/ checkForUpdates_diff

SpecUpdates == InitUpdates /\ [][NextUpdates]_vars

\* ------------------------------------------------ metadata-extraction specification
\* a descriptor file about to be parsed
InitMetadata ==
  /\ kind \in Kinds
  /\ dirExists = FALSE
  /\ entries = {}
  /\ gitDir = FALSE
  /\ sparseFile = NoFile
  /\ runs = 0
  /\ prev = NoPrev
  /\ Fresh
  /\ command = "install"
  /\ parentDir = "present"
  /\ installType = (IF kind = "Skill" THEN "skills" ELSE "subagents")
  /\ gitignore = NoFile
  /\ flowsDone = NoFlows(gitignore)
  /\ Idle
  /\ codecIn \in Documents
  /\ codecOut = <<>>

\* fetchSkillMetadata hands the decoded content to parseSkillFrontmatter
parseSkill ==
  /\ kind = "Skill"
  /\ pc = "start"
  /\ codecOut' = parseSkillFrontmatter(DocText(codecIn))
  /\ pc' = "parsed"
  /\ UNCHANGED <<codecIn, auxVars, runVars, kind, fsVars, caller, runs, flowVars, applierVars,
                 exitCode, outcome, prev>>

\* fetchSubagentMetadata hands the decoded content to parseSubagentFrontmatter
parseSubagent ==
  /\ kind = "Subagent"
  /\ pc = "start"
  /\ codecOut' = parseSubagentFrontmatter(DocText(codecIn))
  /\ pc' = "parsed"
  /\ UNCHANGED <<codecIn, auxVars, runVars, kind, fsVars, caller, runs, flowVars, applierVars,
                 exitCode, outcome, prev>>

NextMetadata == parseSkill \/ parseSubagent

SpecMetadata == InitMetadata /\ [][NextMetadata]_vars

\* ---------------------------------------------------- token-cache specification
InitAuth ==
  /\ kind \in Kinds
  /\ dirExists = FALSE
  /\ entries = {}
  /\ gitDir = FALSE
  /\ sparseFile = NoFile
  /\ runs = 0
  /\ prev = NoPrev
  /\ Fresh
  /\ command = "install"
  /\ parentDir = "present"
  /\ installType = (IF kind = "Skill" THEN "skills" ELSE "subagents")
  /\ gitignore = NoFile
  /\ flowsDone = NoFlows(gitignore)
  /\ upd = <<>>
  /\ twin = <<>>
  /\ listing = <<>>
  /\ codecIn = <<>>
  /\ codecOut = <<>>
  /\ \E env \in Environments : auth = Loaded(env)

AuthUnchanged ==
  UNCHANGED <<codecVars, upd, twin, listing, runVars, kind, fsVars, pc, caller, runs,
              flowVars, applierVars, exitCode, outcome, prev>>

\* a call of getGitHubAuthToken()
authTokenCall ==
  /\ Len(auth.log) < MaxCalls
  /\ LET r == getGitHubAuthToken(auth)
     IN auth' = [auth EXCEPT
                   !.tokenResolved = TRUE,
                   !.cachedToken = r.token,
                   !.log = Append(@, [ev |-> "getGitHubAuthToken", token |-> r.token,
                                      reads |-> r.reads, env |-> auth.env])]
  /\ AuthUnchanged

\* a call of getGitHubHeaders()
headersCall ==
  /\ Len(auth.log) < MaxCalls
  /\ LET r == getGitHubAuthToken(auth)
     IN auth' = [auth EXCEPT
                   !.tokenResolved = TRUE,
                   !.cachedToken = r.token,
                   !.log = Append(@, [ev |-> "getGitHubHeaders", token |-> r.token,
                                      reads |-> r.reads, env |-> auth.env,
                                      headers |-> getGitHubHeaders(r.token)])]
  /\ AuthUnchanged

\* the environment changes between two calls: a variable is set or unset, gh logs in or out
setenv ==
  /\ Len(auth.log) < MaxCalls
  /\ \E env \in Environments :
       /\ Cardinality({x \in DOMAIN env : env[x] # auth.env[x]}) = 1
       /\ auth' = [auth EXCEPT
                     !.env = env,
                     !.log = Append(@, [ev |-> "setenv", token |-> <<>>, reads |-> <<>>,
                                        env |-> env])]
  /\ AuthUnchanged

\* __resetGitHubAuthCacheForTests
resetGitHubAuthCacheForTests ==
  /\ Len(auth.log) < MaxCalls
  /\ auth' = [auth EXCEPT
                !.tokenResolved = FALSE,
                !.cachedToken = <<>>,
                !.log = Append(@, [ev |-> "reset", token |-> <<>>, reads |-> <<>>,
                                   env |-> auth.env])]
  /\ AuthUnchanged

NextAuth == authTokenCall \/ headersCall \/ setenv \/ resetGitHubAuthCacheForTests

SpecAuth == InitAuth /\ [][NextAuth]_vars

\* ----------------------------------------------- catalog-listing specification
\* a call of fetchAvailableSkills / fetchAvailableSubagents about to receive a response
InitCatalog ==
  /\ kind \in Kinds
  /\ dirExists = FALSE
  /\ entries = {}
  /\ gitDir = FALSE
  /\ sparseFile = NoFile
  /\ runs = 0
  /\ prev = NoPrev
  /\ Fresh
  /\ command = "install"
  /\ parentDir = "present"
  /\ installType = (IF kind = "Skill" THEN "skills" ELSE "subagents")
  /\ gitignore = NoFile
  /\ flowsDone = NoFlows(gitignore)
  /\ upd = <<>>
  /\ twin = <<>>
  /\ codecIn = <<>>
  /\ codecOut = <<>>
  /\ \E env \in CatalogEnvironments : auth = Loaded(env)
  /\ \E meta \in MetaResponses(kind) :
       \/ \E c \in ContentsResponses : listing = NewListing(Answer(200, "OK", <<>>), c, meta)
       \/ \E r \in FailedResponses : listing = NewListing(r, <<>>, meta)

ListingUnchanged ==
  UNCHANGED <<codecVars, upd, twin, auth, runVars, kind, fsVars, pc, caller, runs, flowVars,
              applierVars, exitCode, outcome, prev>>

fetchAvailableSkills ==
  /\ kind = "Skill"
  /\ listing.pc = "fetch"
  /\ listing' = ListSkills(listing)
  /\ ListingUnchanged

fetchAvailableSubagents ==
  /\ kind = "Subagent"
  /\ listing.pc = "fetch"
  /\ listing' = ListSubagents(listing)
  /\ ListingUnchanged

\* fetchSkillMetadata(skillFolder), called for a listed item: one request; throws when
\* it is rejected or answered not ok, else parses the content
fetchSkillMetadata(i) ==
  /\ kind = "Skill"
  /\ listing.pc = "listed"
  /\ Len(listing.metadata) < MaxFetches
  /\ i \in 1..Len(listing.result)
  /\ LET r == listing.meta
     IN listing' =
          [listing EXCEPT
             !.requests = Append(@, Request(listing.result[i])),
             !.metadata =
               Append(@, [item |-> listing.result[i],
                          response |-> r,
                          thrown |-> IF r.rejected THEN TransportError
                                     ELSE IF ~r.ok
                                     THEN HttpError("Failed to fetch skill metadata", r)
                                     ELSE NoError,
                          value |-> IF r.rejected \/ ~r.ok THEN NoMetadata
                                    ELSE parseSkillFrontmatter(r.content)])]
  /\ ListingUnchanged

NextCatalog ==
  \/ fetchAvailableSkills
  \/ fetchAvailableSubagents
  \/ \E i \in 1..MaxEntries : fetchSkillMetadata(i)

SpecCatalog == InitCatalog /\ [][NextCatalog]_vars

\* ------------------------------------------------------- codec specification
Alphabet == {"a", ".", "/", "-"}

StemsOf(n) == UNION {[1..m -> Alphabet] : m \in 0..n}

\* identifiers tried: a stem, then nothing, '.md' or '.agent.md'; a name is never empty
Identifiers ==
  {stem \o suffix : stem \in StemsOf(MaxStem),
                    suffix \in {<<>>, <<".", "m", "d">>, AgentSuffix}} \ {<<>>}

InitCodec ==
  /\ kind \in Kinds
  /\ dirExists = TRUE
  /\ entries = {}
  /\ gitDir = TRUE
  /\ sparseFile = NoFile
  /\ runs = 0
  /\ prev = NoPrev
  /\ Fresh
  /\ command = "install"
  /\ parentDir = "present"
  /\ installType = (IF kind = "Skill" THEN "skills" ELSE "subagents")
  /\ gitignore = NoFile
  /\ flowsDone = NoFlows(gitignore)
  /\ Idle
  /\ codecIn \in Identifiers
  /\ codecOut = <<>>

\* update*SparseCheckout writes the pattern file for [codecIn]
codecWrite ==
  /\ pc = "start"
  /\ sparseFile' = writeFileSync(sparseFile, FileContent(kind, <<codecIn>>))
  /\ pc' = "written"
  /\ UNCHANGED <<codecVars, auxVars, runVars, kind, dirExists, entries, gitDir, caller, runs, flowVars,
                 applierVars, exitCode, outcome, prev>>

\* listCheckedOutSkills / listCheckedOutSubagents reads it back
codecRead ==
  /\ pc = "written"
  /\ codecOut' = listCheckedOut(kind, sparseFile)
  /\ pc' = "decoded"
  /\ UNCHANGED <<codecIn, auxVars, runVars, kind, fsVars, caller, runs, flowVars, applierVars, exitCode, outcome, prev>>

NextCodec == codecWrite \/ codecRead

SpecCodec == InitCodec /\ [][NextCodec]_vars

\* ------------------------------------------------------ decode specification
\* lines a pattern file may hold: a stem, then nothing or '.agent.md'
PatternFileLines ==
  {stem \o suffix : stem \in StemsOf(MaxLine), suffix \in {<<>>, AgentSuffix}} \ {<<>>}

\* pattern files tried: one line, or what `git sparse-checkout init` leaves
PatternFiles == {line \o <<NL>> : line \in PatternFileLines} \cup {InitPatterns}

\* a version-controlled target whose pattern file is about to be read
InitDecode ==
  /\ kind \in Kinds
  /\ dirExists = TRUE
  /\ entries = {}
  /\ gitDir = TRUE
  /\ sparseFile \in PatternFiles
  /\ runs = 0
  /\ prev = NoPrev
  /\ Fresh
  /\ command = "install"
  /\ parentDir = "present"
  /\ installType = (IF kind = "Skill" THEN "skills" ELSE "subagents")
  /\ gitignore = NoFile
  /\ flowsDone = NoFlows(gitignore)
  /\ Idle
  /\ codecIn = <<>>
  /\ codecOut = <<>>

\* listCheckedOutSkills / listCheckedOutSubagents reads the pattern file
decodeFile ==
  /\ pc = "start"
  /\ codecOut' = listCheckedOut(kind, sparseFile)
  /\ pc' = "decoded"
  /\ UNCHANGED <<codecIn, auxVars, runVars, kind, fsVars, caller, runs, flowVars, applierVars,
                 exitCode, outcome, prev>>

NextDecode == decodeFile

SpecDecode == InitDecode /\ [][NextDecode]_vars

\* ------------------------------------------------------------------ claims
Exited == pc = "exited"
PreconditionErrors == {"already a git repository", "not a git repository"}
StepFailed == Exited /\ err \notin ({"none"} \cup PreconditionErrors)

\* the error a failed command rejects with
ThrownBy(event) ==
  CASE event = "git:clone (failed)" -> "clone"
    [] event = "git:sparse-checkout init (failed)" -> "sparse-checkout init"
    [] event = "git:checkout (failed)" -> "checkout"
    [] event = "git:init (failed)" -> "init"
    [] event = "git:remote add (failed)" -> "remote add"
    [] event = "git:fetch (failed)" -> "fetch"
    [] event = "git:checkout -B (failed)" -> "checkout -B"
    [] event = "git:read-tree (failed)" -> "read-tree"
    [] OTHER -> "none"

IsProgress(event) ==
  event \in {"progress:Initializing sparse clone...",
             "progress:Configuring sparse-checkout...",
             "progress:Checking out files...",
             "progress:Initializing git repository in existing directory...",
             "progress:Fetching repository...",
             "progress:Pulling latest changes...",
             "progress:Updating sparse-checkout configuration...",
             "progress:Applying changes...",
             "progress:Done!"}

\* the git commands and fs calls of the applier, without the notifications
Commands == SelectSeq(trace, LAMBDA e : ~IsProgress(e))

PullAttempted == Includes(trace, "git:pull") \/ Includes(trace, "git:pull (failed)")

\* C1: the manage-mode diff is a partition: toAdd, toRemove and unchanged are pairwise
\* disjoint, toAdd with unchanged is the selection, toRemove with unchanged is the
\* installed list (as sets)
C1_DiffIsPartition ==
  diff.computed =>
    /\ Range(diff.toAdd) \cap Range(diff.toRemove) = {}
    /\ Range(diff.toAdd) \cap Range(diff.unchanged) = {}
    /\ Range(diff.toRemove) \cap Range(diff.unchanged) = {}
    /\ Range(diff.toAdd) \cup Range(diff.unchanged) = Range(selected)
    /\ Range(diff.toRemove) \cup Range(diff.unchanged) = Range(installed)

C1_Witness ==
  /\ diff.computed
  /\ diff.toAdd # <<>>
  /\ diff.toRemove # <<>>
  /\ diff.unchanged # <<>>

\* C2: in the flow, the applier entered is Reconcile exactly when an installation was
\* detected at the target (else Materialize), and a run whose selection was confirmed in
\* manage mode always enters Reconcile and attempts the pull, also when nothing changes
C2_OperationFollowsDetection ==
  caller = "cli" =>
    /\ op # "none" =>
         LET detected == before.gitDir /\ listCheckedOut(kind, before.sparseFile) # <<>>
         IN /\ op = "Reconcile" <=> detected
            /\ op = "Materialize" <=> ~detected
    /\ (Exited /\ diff.computed) => (op = "Reconcile" /\ PullAttempted)

C2_Witness ==
  /\ caller = "cli"
  /\ Exited
  /\ diff.computed
  /\ diff.toAdd = <<>>
  /\ diff.toRemove = <<>>
  /\ op = "Reconcile"
  /\ PullAttempted

\* C3 as claimed: when a step of Materialize fails on a target that did not exist, the
\* target directory no longer exists once the error is returned
C3_AsClaimed ==
  (StepFailed /\ op = "Materialize" /\ ~before.dirExists) => ~dirExists

\* C3, amended: when a step of Materialize fails on a target that did not exist, the
\* applier attempts the recursive removal of the directory; the directory is gone when
\* that removal succeeds; whether it succeeds or not, the error of the failed step is
\* the one propagated
C3_CleanupAttemptedErrorKept ==
  (StepFailed /\ op = "Materialize" /\ ~before.dirExists) =>
    /\ Len(trace) >= 2
    /\ trace[Len(trace)] \in {"fs:rm", "fs:rm (failed)"}
    /\ trace[Len(trace)] = "fs:rm" => (~dirExists /\ ~gitDir /\ sparseFile = NoFile)
    /\ err = ThrownBy(trace[Len(trace) - 1])

C3_Witness ==
  /\ StepFailed
  /\ op = "Materialize"
  /\ ~before.dirExists
  /\ err = "checkout"
  /\ ~dirExists

\* C4: a Materialize on a target directory that existed before the call never deletes
\* the directory nor any entry it held; a target that was already version-controlled is
\* left exactly as it was
C4_PreExistingKept ==
  (op = "Materialize" /\ before.dirExists) =>
    /\ dirExists
    /\ before.entries \subseteq entries
    /\ ~Includes(trace, "fs:rm")
    /\ ~Includes(trace, "fs:rm (failed)")
    /\ before.gitDir => Target = before

C4_Witness ==
  /\ StepFailed
  /\ op = "Materialize"
  /\ before.dirExists
  /\ before.entries = {DSStore, ForeignFile}
  /\ gitDir

\* C5: a precondition failure (Materialize on a version-controlled target, Reconcile on
\* a target that is not) comes before any notification, fs call and git command, and
\* leaves the target as it was
C5_PreconditionFailureNoEffect ==
  (Exited /\ err \in PreconditionErrors) =>
    /\ trace = <<>>
    /\ Target = before
    /\ err = "already a git repository" => (op = "Materialize" /\ before.gitDir)
    /\ err = "not a git repository" => (op = "Reconcile" /\ ~before.gitDir)

C5_Witness ==
  /\ Exited
  /\ op = "Materialize"
  /\ err = "already a git repository"
  /\ before.sparseFile # NoFile
  /\ trace = <<>>

\* C6: after a successful Materialize or Reconcile the pattern file holds exactly the
\* selection, encoded element by element in order, one pattern per line
C6_PatternListIsSelection ==
  (Exited /\ err = "none" /\ op # "none") =>
    /\ Len(PatternLines(sparseFile)) = Len(selected)
    /\ \A i \in 1..Len(selected) :
         PatternLines(sparseFile)[i] = Pattern(kind, selected[i])
    /\ sparseFile = Join(PatternLines(sparseFile), NL) \o <<NL>>

C6_Witness ==
  /\ Exited
  /\ err = "none"
  /\ op = "Reconcile"
  /\ before.sparseFile = FileContent("Skill", <<SkillA, SkillB>>)
  /\ selected = <<SkillA, SkillC>>
  /\ PatternLines(sparseFile) = <<SkillPattern(SkillA), SkillPattern(SkillC)>>

\* the second of two Reconcile runs in succession, with the selection of the first
SecondReconcile ==
  /\ prev.op = "Reconcile"
  /\ prev.err # "not a git repository"
  /\ op = "Reconcile"
  /\ selected = prev.sel
  /\ pc \in {"r_pull", "r_write", "r_apply", "exited"}

\* C7: Reconcile is idempotent: in the second of two Reconcile runs with the same
\* selection, the diff against the re-detected installed list has nothing added and
\* nothing removed, and the pattern file ends as the first run left it
C7_ReconcileIdempotent ==
  SecondReconcile =>
    /\ ToAdd(selected, listCheckedOut(kind, before.sparseFile)) = <<>>
    /\ ToRemove(selected, listCheckedOut(kind, before.sparseFile)) = <<>>
    /\ diff.computed => (diff.toAdd = <<>> /\ diff.toRemove = <<>>)
    /\ Exited => sparseFile = prev.file

C7_Witness ==
  /\ SecondReconcile
  /\ Exited
  /\ caller = "cli"
  /\ diff.computed
  /\ prev.file # FileContent(kind, Catalog(kind))
  /\ sparseFile = prev.file

\* no path separator, not starting with '.'
ValidIdentifier(id) == ~Includes(id, SL) /\ ~StartsWith(id, ".")

\* C8 as claimed: every valid identifier is decoded back from its pattern, in both shapes
C8_AsClaimed ==
  (pc = "decoded" /\ ValidIdentifier(codecIn)) => codecOut = <<codecIn>>

\* C8, amended: a valid identifier is decoded back from its pattern in the Skill shape,
\* and in the Subagent shape when it ends in '.agent.md'
C8_RoundTrip ==
  (pc = "decoded" /\ ValidIdentifier(codecIn)
     /\ (kind = "Subagent" => EndsWith(codecIn, AgentSuffix))) =>
    codecOut = <<codecIn>>

C8_Witness ==
  /\ pc = "decoded"
  /\ kind = "Subagent"
  /\ ValidIdentifier(codecIn)
  /\ Len(codecIn) > Len(AgentSuffix)
  /\ codecOut = <<codecIn>>

\* C9: the flow is in manage mode only for a target that has .git and whose pattern
\* file decodes to at least one identifier; a version-controlled target whose pattern
\* file is absent, empty or decodes to nothing is treated as fresh
C9_ManageModeNeedsIdentifiers ==
  /\ pc \in {"select", "apply"} =>
       LET ids == listCheckedOut(kind, sparseFile)
       IN /\ isManageMode <=> (gitDir /\ Len(ids) > 0)
          /\ (gitDir /\ (sparseFile = NoFile \/ sparseFile = <<>> \/ ids = <<>>)) =>
               ~isManageMode
  /\ (caller = "cli" /\ op = "Reconcile") =>
       Len(listCheckedOut(kind, before.sparseFile)) > 0

C9_Witness ==
  /\ pc = "apply"
  /\ gitDir
  /\ sparseFile # NoFile
  /\ PatternLines(sparseFile) # <<>>
  /\ listCheckedOut(kind, sparseFile) = <<>>
  /\ ~isManageMode

AdoptionCommands ==
  { <<"fs:mkdir", "git:init">> \o remote \o
    <<"git:fetch", "git:sparse-checkout init", "fs:write", lsRemote, "git:checkout -B">> :
      remote \in {<<"git:remote set-url">>,
                  <<"git:remote set-url (failed)", "git:remote add">>},
      lsRemote \in {"git:ls-remote", "git:ls-remote (failed)"} }

ReadTreeAttempted == Includes(trace, "git:read-tree") \/ Includes(trace, "git:read-tree (failed)")

\* C11: a failed pull at the start of Reconcile is swallowed: the call goes on to
\* overwrite the pattern file with the selection and to run read-tree, it resolves
\* whenever read-tree succeeds, and the only error it can reject with is read-tree's
C11_PullFailureSwallowed ==
  Includes(trace, "git:pull (failed)") =>
    /\ op = "Reconcile"
    /\ pc \in {"r_write", "r_apply", "exited"}
    /\ err \in {"none", "read-tree"}
    /\ pc \in {"r_apply", "exited"} =>
         (Includes(trace, "fs:write") /\ sparseFile = FileContent(kind, selected))
    /\ Exited => ReadTreeAttempted
    /\ (Exited /\ Includes(trace, "git:read-tree")) =>
         (err = "none" /\ (caller = "cli" => exitCode = 0))

C11_Witness ==
  /\ Exited
  /\ op = "Reconcile"
  /\ Includes(trace, "git:pull (failed)")
  /\ Includes(trace, "git:read-tree")
  /\ err = "none"
  /\ sparseFile # before.sparseFile

\* C12: when read-tree fails in Reconcile the error is propagated and nothing is undone:
\* no removal is attempted, the target directory and its entries stay, the pattern file
\* holds the new selection, and 'Done!' is not notified
C12_ReadTreeFailureNoRollback ==
  (Exited /\ Includes(trace, "git:read-tree (failed)")) =>
    /\ op = "Reconcile"
    /\ err = "read-tree"
    /\ caller = "cli" => exitCode = 1
    /\ dirExists /\ gitDir /\ entries = before.entries
    /\ sparseFile = FileContent(kind, selected)
    /\ ~Includes(trace, "fs:rm") /\ ~Includes(trace, "fs:rm (failed)")
    /\ ~Includes(trace, "progress:Done!")
    /\ trace[Len(trace)] = "git:read-tree (failed)"

C12_Witness ==
  /\ Exited
  /\ op = "Reconcile"
  /\ err = "read-tree"
  /\ before.sparseFile # NoFile
  /\ sparseFile # before.sparseFile
  /\ sparseFile = FileContent(kind, selected)

\* position of an identifier in the catalog listing (0: not listed)
CatalogIndex(id) ==
  IF Includes(Catalog(kind), id)
  THEN CHOOSE i \in 1..Len(Catalog(kind)) : Catalog(kind)[i] = id
  ELSE 0

\* the listed identifiers of seq come in the relative order of the catalog listing
InCatalogOrder(seq) ==
  \A i, j \in 1..Len(seq) :
    (i < j /\ CatalogIndex(seq[i]) > 0 /\ CatalogIndex(seq[j]) > 0) =>
      CatalogIndex(seq[i]) <= CatalogIndex(seq[j])

\* C13: toAdd, toRemove and unchanged list their identifiers in the relative order of
\* the catalog listing, whatever the order of the toggles and of the installed list
C13_DiffInCatalogOrder ==
  diff.computed =>
    /\ InCatalogOrder(diff.toAdd)
    /\ InCatalogOrder(diff.toRemove)
    /\ InCatalogOrder(diff.unchanged)

\* Ctrl+C in the selection prompt: the only step from the prompt to the end of the process
CancelInSelection == pc = "select" /\ pc' = "exited"

SuccessOutcomes == {"installed", "usage", "version", "cancelled"}
ErrorOutcomes ==
  {"git unavailable", "fetch failed", "empty catalog", "applier failed", "unknown command"}

\* C15: the process exits with 0 exactly when the run succeeded, printed the usage or
\* the version, or was cancelled, and with 1 for every error: git unavailable, catalog
\* fetch failure, empty catalog, a rejected applier, an unknown command
C15_ExitCodes ==
  Exited =>
    /\ outcome \in SuccessOutcomes \cup ErrorOutcomes
    /\ exitCode = 0 <=> outcome \in SuccessOutcomes
    /\ exitCode = 1 <=> outcome \in ErrorOutcomes
    /\ err # "none" <=> outcome = "applier failed"
    /\ outcome = "installed" => (op # "none" /\ err = "none")
    /\ outcome = "usage" <=> command \in {"--help", "-h"}
    /\ outcome = "version" <=> command \in {"--version", "-v"}
    /\ outcome = "unknown command" <=> command \notin {"", "install", "--help", "-h", "--version", "-v"}
    /\ outcome = "cancelled" => (op = "none" /\ err = "none")

C15_Witness ==
  /\ Exited
  /\ exitCode = 1
  /\ outcome = "applier failed"
  /\ flowsDone.kinds = <<"Skill">>
  /\ err = "read-tree"

\* C16: the selection prompt never resolves with an empty selection: with nothing
\* selected the prompt stays active unless it is cancelled, Enter then only arms the
\* re-render timer, and the list the flow passes to the diff and to the applier holds at
\* least one identifier
C16_NeverResolvesEmpty ==
  /\ [](caller = "cli" /\ (pc = "apply" \/ op # "none" \/ diff.computed) => Len(selected) > 0)
  /\ [][(pc = "select" /\ Len(selected) = 0) =>
          (pc' = "select" \/ (pc' = "exited" /\ outcome' = "cancelled"))]_vars
  /\ [][(pc = "select" /\ ~timer /\ timer') =>
          (Len(selected) = 0 /\ pc' = "select" /\ selected' = selected)]_vars

C16_Witness ==
  /\ pc = "select"
  /\ Len(selected) = 0
  /\ timer
  /\ keys = 2

\* C19: two selection prompts that differ only in itemsNeedingUpdate and receive the
\* same keys settle alike and return the same selection, whatever they displayed; the
\* diff against the installed list and the choice of applier are then the same
C19_UpdateSetIsAdvisory ==
  twin # <<>> =>
    /\ twin.p[1].status = twin.p[2].status
    /\ twin.p[1].selected = twin.p[2].selected
    /\ twin.p[1].result = twin.p[2].result
    /\ computeDiff(twin.p[1].result, twin.installed)
         = computeDiff(twin.p[2].result, twin.installed)

C19_Witness ==
  /\ twin # <<>>
  /\ twin.p[1].status = "resolved"
  /\ twin.needs[1] # twin.needs[2]
  /\ render(twin.p[1], Catalog(kind), twin.needs[1]).updateCount
       # render(twin.p[2], Catalog(kind), twin.needs[2]).updateCount
  /\ twin.keys = 2
  /\ twin.p[1].result # InitialSelection(Catalog(kind), twin.installed)
  /\ twin.p[1].result = twin.p[2].result

Returned == upd # <<>> /\ upd.pc = "returned"

\* the commands of the update check, by name
LoggedAs(cmd) == SelectSeq(upd.log, LAMBDA r : r.cmd = cmd)

FetchAndBranchOk ==
  /\ Len(upd.log) >= 2
  /\ upd.log[1].cmd = "fetch" /\ upd.log[1].ok
  /\ upd.log[2].cmd = "rev-parse" /\ upd.log[2].ok

\* C17: the update check returns the empty set, after no git command at all, for a
\* target without .git; it returns the empty set, with no diff run, when the fetch or the
\* branch resolution fails; every call returns
C17_UpdateCheckFailsEmpty ==
  upd # <<>> =>
    /\ upd.pc \in {"enter", "fetch", "branch", "diff", "returned"}
    /\ ~gitDir => (upd.log = <<>> /\ upd.needsUpdate = <<>>)
    /\ (Returned /\ ~FetchAndBranchOk) =>
         (upd.needsUpdate = <<>> /\ LoggedAs("diff") = <<>>)
    /\ (Returned /\ gitDir /\ ~FetchAndBranchOk) =>
         (~upd.log[Len(upd.log)].ok /\ Len(LoggedAs("fetch")) = 1)

C17_Witness ==
  /\ Returned
  /\ gitDir
  /\ Len(upd.ids) = 2
  /\ Len(upd.log) = 2
  /\ upd.log[2].cmd = "rev-parse"
  /\ ~upd.log[2].ok
  /\ upd.needsUpdate = <<>>

\* C18: when fetch and branch resolution succeed, the update check runs them once each
\* before any diff, runs one diff per requested identifier in order, and returns exactly
\* the identifiers whose diff succeeded with a non-empty output
C18_UpdateCheckResult ==
  (Returned /\ FetchAndBranchOk) =>
    /\ Len(LoggedAs("fetch")) = 1 /\ Len(LoggedAs("rev-parse")) = 1
    /\ Len(upd.log) = 2 + Len(upd.ids)
    /\ \A j \in 1..Len(upd.ids) :
         (upd.log[2 + j].cmd = "diff" /\ upd.log[2 + j].arg = upd.ids[j])
    /\ Range(upd.needsUpdate) \subseteq Range(upd.ids)
    /\ Range(upd.needsUpdate) =
         {upd.ids[j] : j \in {n \in 1..Len(upd.ids) :
                                upd.log[2 + n].ok /\ upd.log[2 + n].out # <<>>}}

C18_Witness ==
  /\ Returned
  /\ FetchAndBranchOk
  /\ Len(upd.ids) = 2
  /\ upd.ids[1] # upd.ids[2]
  /\ ~upd.log[3].ok
  /\ upd.needsUpdate = <<upd.ids[2]>>

\* the entries the catalog is to list, as the claim words them
Qualifies(k, item) ==
  IF k = "Skill"
  THEN /\ item.type = "dir"
       /\ item.name \notin {DotGithub, DotClaude, NodeModules}
       /\ item.name[1] # "."
  ELSE /\ item.type = "file"
       /\ Len(item.name) >= 9
       /\ SubSeq(item.name, Len(item.name) - 8, Len(item.name)) = AgentSuffix

FenceLabel(k) == IF k = "Skill" THEN "skill" ELSE "chatagent"

\* the block the claim selects in a file composed of the parts: the first fenced block
\* of the kind's label if there is one, else the dashed block at the top, else none
SelectedPart(k, parts) ==
  LET fenced == {i \in 1..Len(parts) :
                   parts[i].shape = "fenced" /\ parts[i].label = FenceLabel(k)}
  IN IF fenced # {} THEN <<parts[Least(fenced)]>>
     ELSE IF parts # <<>> /\ parts[1].shape = "dashed" THEN <<parts[1]>>
     ELSE <<>>

\* C24: metadata extraction uses the fenced block of the kind's label when the file has
\* one, even when a bare dashed block at the top matches as well; otherwise the bare
\* dashed block at the top; with neither the result is {name: '', description: ''}; a
\* key missing from the selected block gives '' for that field
C24_FencedBlockFirst ==
  pc = "parsed" =>
    LET sel == SelectedPart(kind, codecIn)
    IN codecOut = IF sel = <<>> THEN NoMetadata
                  ELSE [name |-> sel[1].name, description |-> sel[1].description]

\* the events of the log that are calls of getGitHubAuthToken or getGitHubHeaders
IsTokenCall(e) == e.ev \in {"getGitHubAuthToken", "getGitHubHeaders"}

\* no reset lies between the events i and j of the log
NoResetBetween(i, j) == \A m \in (i + 1)..(j - 1) : auth.log[m].ev # "reset"

\* C26: the token is resolved at most once per process: a call of getGitHubAuthToken or
\* getGitHubHeaders that follows an earlier call with no reset in between returns the
\* same token as that call and reads neither the environment nor the gh helper, whatever
\* the first resolution gave and however the environment changed in between
C26_ResolvedOnce ==
  auth # <<>> =>
    \A i, j \in 1..Len(auth.log) :
      (i < j /\ IsTokenCall(auth.log[i]) /\ IsTokenCall(auth.log[j]) /\ NoResetBetween(i, j)) =>
        /\ auth.log[j].token = auth.log[i].token
        /\ auth.log[j].reads = <<>>
        /\ auth.log[j].ev = "getGitHubHeaders" =>
             auth.log[j].headers = getGitHubHeaders(auth.log[i].token)

\* the first resolution gave the empty token, the environment then gained a token, and
\* a later call still answered with the empty token; after a reset a call resolved anew
C26_Witness ==
  /\ auth # <<>>
  /\ Len(auth.log) = 3
  /\ auth.log[1].ev = "getGitHubAuthToken" /\ auth.log[1].token = <<>>
  /\ auth.log[2].ev = "setenv" /\ auth.log[2].env.GITHUB_TOKEN = <<" ", "g">>
  /\ auth.log[3].ev = "getGitHubHeaders" /\ auth.log[3].token = <<>>
  /\ auth.log[3].reads = <<>>

\* the value of an environment variable or helper output, as the claim reads it:
\* nothing when unset or failed, else the text without the blanks around it
Trimmed(raw) == IF raw \in {Unset, GhFailure} THEN <<>> ELSE Trim(raw)

\* C27: a call that resolves the token returns the first non-empty trimmed value of
\* GITHUB_TOKEN, GH_TOKEN and the output of `gh auth token`, in that order; it invokes
\* the gh helper exactly when both environment tokens are empty; a helper failure gives
\* the empty token, and headers without Authorization, not an error
C27_ResolutionOrder ==
  auth # <<>> =>
    \A i \in 1..Len(auth.log) :
      LET e == auth.log[i]
          g == Trimmed(e.env.GITHUB_TOKEN)
          h == Trimmed(e.env.GH_TOKEN)
          c == Trimmed(e.env.gh)
      IN (IsTokenCall(e) /\ e.reads # <<>>) =>
           /\ e.token = IF g # <<>> THEN g ELSE IF h # <<>> THEN h ELSE c
           /\ Includes(e.reads, "gh auth token") <=> (g = <<>> /\ h = <<>>)
           /\ e.ev = "getGitHubHeaders" =>
                ("Authorization" \in DOMAIN e.headers <=> e.token # <<>>)
           /\ (e.ev = "getGitHubHeaders" /\ e.token # <<>>) =>
                e.headers.Authorization = <<"Bearer", e.token>>

\* GITHUB_TOKEN is blank, GH_TOKEN holds a token with a trailing newline: the call
\* returns it trimmed and does not invoke the helper
C27_Witness ==
  /\ auth # <<>>
  /\ Len(auth.log) >= 1
  /\ auth.log[1].ev = "getGitHubHeaders"
  /\ auth.log[1].env.GITHUB_TOKEN = <<" ">>
  /\ auth.log[1].env.GH_TOKEN = <<"h", NL>>
  /\ auth.log[1].token = <<"h">>
  /\ auth.log[1].reads = <<"GITHUB_TOKEN", "GH_TOKEN">>

\* a call of fetchAvailableSkills / fetchAvailableSubagents returns its listing
ListingReturns == listing # <<>> /\ listing.pc = "fetch" /\ listing'.pc = "listed"

\* C21: listing the available items issues exactly one request, for the contents of the
\* repository root, and returns every item with the placeholder description; no
\* metadata is requested by the listing itself, for either kind and any number of entries
C21_OneRequestLazyListing ==
  [][ListingReturns =>
       /\ Len(listing'.requests) = 1
       /\ listing'.requests[1].item = <<>>
       /\ listing'.metadata = <<>>
       /\ \A i \in 1..Len(listing'.result) : listing'.descriptions[i] = Placeholder]_vars

\* the flow's listing call fails: the only step from the start of a flow to the exit
\* with that status
FetchFails == pc = "start" /\ pc' = "exited" /\ outcome' = "fetch failed"

\* the listing call threw, with the response's status and reason when there was a
\* response, and returned nothing
ThrewWithStatus(l, k) ==
  /\ l # <<>>
  /\ l.pc = "thrown"
  /\ l.result = <<>> /\ l.descriptions = <<>>
  /\ Len(l.requests) = 1
  /\ l.error # NoError
  /\ ~l.response.rejected =>
       /\ l.error.message = (IF k = "Skill" THEN "Failed to fetch skills list"
                             ELSE "Failed to fetch subagents list")
       /\ l.error.status = l.response.status
       /\ l.error.statusText = l.response.statusText

\* the flow has shown no path or selection prompt and entered no applier, and the
\* target and .gitignore are as the flow found them
FlowUntouched ==
  /\ ~isExisting /\ installed = <<>> /\ selected = <<>> /\ keys = 0 /\ diff = NoDiff
  /\ op = "none" /\ trace = <<>>
  /\ gitignore = flowsDone.gitignore

\* C22 as claimed: when the listing request is rejected or answered with a non-success
\* status, the listing throws an error carrying status and reason and returns no
\* catalog, and the run ends with exit code 1 having shown no path or selection prompt
\* and invoked no applier at all
C22_AsClaimed ==
  [][FetchFails =>
       /\ ThrewWithStatus(listing', kind)
       /\ exitCode' = 1
       /\ FlowUntouched
       /\ UNCHANGED <<fsVars, gitignore, flowVars, op, trace>>
       /\ flowsDone.kinds = <<>> /\ ~flowsDone.changed]_vars

\* C22, amended: when the listing request is rejected or answered with a non-success
\* status, the listing throws (with status and reason when there was a response) and
\* returns no catalog; the flow that asked for it ends the run with exit code 1 having
\* shown none of its prompts and entered no applier; a flow that ran earlier in the run
\* can only be the skills flow, before the subagents listing
C22_ListingFailureAbortsFlow ==
  [][FetchFails =>
       /\ ThrewWithStatus(listing', kind)
       /\ exitCode' = 1
       /\ FlowUntouched
       /\ UNCHANGED <<fsVars, gitignore, flowVars, op, trace>>
       /\ flowsDone.kinds # <<>> =>
            (flowsDone.kinds = <<"Skill">> /\ kind = "Subagent" /\ installType = "both")]_vars

C22_Witness ==
  /\ Exited
  /\ outcome = "fetch failed"
  /\ exitCode = 1
  /\ listing # <<>>
  /\ listing.error = HttpError("Failed to fetch subagents list",
                               Answer(403, "rate limit exceeded", <<>>))
  /\ flowsDone.kinds = <<"Skill">>
  /\ flowsDone.changed

\* C23: a metadata request answered with a non-success status makes the metadata fetch
\* throw 'Failed to fetch skill metadata' / 'Failed to fetch subagent metadata'; it
\* does not return empty metadata
C23_MetadataFailureThrows ==
  listing # <<>> =>
    \A i \in 1..Len(listing.metadata) :
      LET m == listing.metadata[i]
      IN (~m.response.rejected /\ ~m.response.ok) =>
           m.thrown.message = (IF kind = "Skill" THEN "Failed to fetch skill metadata"
                               ELSE "Failed to fetch subagent metadata")

\* the credential of an environment as the claim words it: the first non-empty of
\* GITHUB_TOKEN, GH_TOKEN and the gh helper's output
Credential(env) ==
  IF Trimmed(env.GITHUB_TOKEN) # <<>> THEN Trimmed(env.GITHUB_TOKEN)
  ELSE IF Trimmed(env.GH_TOKEN) # <<>> THEN Trimmed(env.GH_TOKEN)
  ELSE Trimmed(env.gh)

\* C25: with a credential available every catalog request, listing or metadata, carries
\* Authorization: Bearer <credential>; with none, no request carries Authorization
C25_CredentialOnEveryRequest ==
  (listing # <<>> /\ auth # <<>>) =>
    \A i \in 1..Len(listing.requests) :
      LET h == listing.requests[i].headers
      IN IF Credential(auth.env) # <<>>
         THEN "Authorization" \in DOMAIN h /\ h.Authorization = <<"Bearer", Credential(auth.env)>>
         ELSE "Authorization" \notin DOMAIN h

\* C28: discovery returns an entry only for a target that is present: every entry of
\* detectExistingSkillInstallations / detectExistingAgentInstallations counts at least
\* one identifier, and a flow whose path was picked among the entries offered as
\* existing installations is in manage mode
C28_DiscoveryOnlyPresent ==
  /\ pc = "path" =>
       \A i \in 1..Len(detectExistingInstallations) :
         detectExistingInstallations[i].count >= 1
  /\ (pc \in {"gitignore", "select", "apply"} /\ isExisting) => isManageMode

\* what a line of the pattern file decodes to: no identifier, or one
DecodedLine(k, line) == listCheckedOut(k, line \o <<NL>>)

\* the decoded list is made of the identifiers of the lines, in the order of the lines
RECURSIVE DecodedLines(_, _)
DecodedLines(k, lines) ==
  IF lines = <<>> THEN <<>>
  ELSE DecodedLine(k, Head(lines)) \o DecodedLines(k, Tail(lines))

WrittenShape(k, line) ==
  /\ line[1] = SL
  /\ k = "Skill" => (Len(line) >= 2 /\ line[Len(line)] = SL)

MaterializePhases ==
  <<"progress:Initializing sparse clone...", "progress:Configuring sparse-checkout...",
    "progress:Checking out files...", "progress:Done!">>
AdoptPhases ==
  <<"progress:Initializing git repository in existing directory...",
    "progress:Fetching repository...", "progress:Configuring sparse-checkout...",
    "progress:Checking out files...", "progress:Done!">>
ReconcilePhases ==
  <<"progress:Pulling latest changes...",
    "progress:Updating sparse-checkout configuration...", "progress:Applying changes...",
    "progress:Done!">>
PhasesOf ==
  IF op = "Reconcile" THEN ReconcilePhases
  ELSE IF shouldAdopt THEN AdoptPhases ELSE MaterializePhases

Notifications == SelectSeq(trace, IsProgress)
IsPrefixOf(s, t) == Len(s) <= Len(t) /\ \A i \in 1..Len(s) : s[i] = t[i]

\* the command a notification announces, with either outcome
StepOf(n) ==
  CASE n = "progress:Initializing sparse clone..." -> {"git:clone", "git:clone (failed)"}
    [] n = "progress:Configuring sparse-checkout..." ->
         {"git:sparse-checkout init", "git:sparse-checkout init (failed)"}
    [] n = "progress:Checking out files..." ->
         {"git:checkout", "git:checkout (failed)", "git:checkout -B",
          "git:checkout -B (failed)"}
    [] n = "progress:Initializing git repository in existing directory..." ->
         {"git:init", "git:init (failed)"}
    [] n = "progress:Fetching repository..." -> {"git:fetch", "git:fetch (failed)"}
    [] n = "progress:Pulling latest changes..." -> {"git:pull", "git:pull (failed)"}
    [] n = "progress:Updating sparse-checkout configuration..." -> {"fs:write"}
    [] n = "progress:Applying changes..." -> {"git:read-tree", "git:read-tree (failed)"}
    [] OTHER -> {}

\* the commands the notifications of the current operation announce
AnnouncedSteps == UNION {StepOf(PhasesOf[i]) : i \in 1..Len(PhasesOf)}

FailedEvents ==
  {"git:clone (failed)", "git:sparse-checkout init (failed)", "git:checkout (failed)",
   "git:init (failed)", "git:remote set-url (failed)", "git:remote add (failed)",
   "git:fetch (failed)", "git:ls-remote (failed)", "git:checkout -B (failed)",
   "git:pull (failed)", "git:read-tree (failed)", "fs:rm (failed)"}

\* the failures the applier catches and ignores
SwallowedFailures ==
  {"git:pull (failed)", "git:remote set-url (failed)", "git:ls-remote (failed)"}

\* the notifications come in the order of the operation's list, each directly before
\* the command it announces, and no announced command runs without its notification
PhasesInOrder ==
  /\ IsPrefixOf(Notifications, PhasesOf)
  /\ \A i \in 1..Len(trace) :
       /\ (IsProgress(trace[i]) /\ trace[i] # "progress:Done!") =>
            (i < Len(trace) /\ trace[i + 1] \in StepOf(trace[i]))
       /\ trace[i] \in AnnouncedSteps =>
            (i > 1 /\ IsProgress(trace[i - 1]) /\ trace[i] \in StepOf(trace[i - 1]))

LastStepSucceeded ==
  \/ Includes(trace, "git:checkout")
  \/ Includes(trace, "git:checkout -B")
  \/ Includes(trace, "git:read-tree")

CheckoutEvents ==
  {"git:checkout", "git:checkout (failed)", "git:checkout -B", "git:checkout -B (failed)"}

CheckedOut == Includes(trace, "git:checkout") \/ Includes(trace, "git:checkout -B")

\* C31: in a Materialize, by clone or by adoption, a checkout is attempted only after
\* the clone or fetch, the initialisation of sparse-checkout and the write of the pattern
\* file, in this order; when the checkout starts, and after it succeeded, the pattern
\* file holds exactly the encoded selection; no step before the checkout changes the
\* entries of the target
C31_ScopeBeforeCheckout ==
  op = "Materialize" =>
    /\ \A i \in 1..Len(trace) :
         trace[i] \in CheckoutEvents =>
           /\ \A m \in 1..(i - 1) : trace[m] \notin CheckoutEvents
           /\ \E f \in 1..(i - 1) :
                /\ trace[f] \in {"git:clone", "git:fetch"}
                /\ \E j \in (f + 1)..(i - 2) :
                     trace[j] = "git:sparse-checkout init" /\ trace[j + 1] = "fs:write"
    /\ (pc \in {"m_checkout", "a_checkout"} \/ CheckedOut) =>
         sparseFile = FileContent(kind, selected)
    /\ pc \in {"m_clone", "m_config", "m_checkout", "a_init", "a_remote", "a_fetch",
               "a_config", "a_checkout"} =>
         entries = before.entries

C31_Witness ==
  /\ Exited
  /\ op = "Materialize"
  /\ shouldAdopt
  /\ Includes(trace, "git:checkout -B (failed)")
  /\ sparseFile = FileContent(kind, selected)
  /\ selected # <<>>

ApplierPcs ==
  {"m_enter", "m_clone", "m_config", "m_checkout", "m_catch", "a_init", "a_remote",
   "a_fetch", "a_config", "a_checkout", "r_enter", "r_pull", "r_write", "r_apply"}

\* an invocation of the applier has been made and its promise has not settled
ApplierActive == pc \in ApplierPcs

\* C32: within a run the applier is invoked only when no invocation is active; the
\* subagents flow starts only after the skills flow returned, its applier having resolved
\* with 'Done!' as its last event; while an invocation is active its kind, operation and
\* selection stay and its trace only grows
C32_OneApplierAtATime ==
  [][ /\ (pc' \in {"m_enter", "r_enter"} /\ pc' # pc) => ~ApplierActive
      /\ (kind = "Skill" /\ kind' = "Subagent") =>
           /\ pc = "next" /\ pc' = "start"
           /\ ~ApplierActive
           /\ op # "none" /\ err = "none"
           /\ trace # <<>> /\ trace[Len(trace)] = "progress:Done!"
           /\ trace' = <<>> /\ op' = "none"
      /\ (ApplierActive /\ ApplierActive') =>
           /\ kind' = kind /\ selected' = selected
           /\ pc \notin {"m_enter", "r_enter"} => (op' = op /\ IsPrefixOf(trace, trace'))
    ]_vars

C32_Witness ==
  /\ kind = "Subagent"
  /\ flowsDone.kinds = <<"Skill">>
  /\ flowsDone.changed
  /\ ApplierActive
  /\ op = "Reconcile"
  /\ Includes(trace, "git:pull")

\* the suffix a line of the kind's pattern list is expected to have
ExpectedSuffix(k, line) ==
  IF k = "Skill" THEN EndsWith(line, <<SL>>) ELSE EndsWith(line, AgentSuffix)

\* what holds of every decoded identifier of the kind
WellFormedId(k, id) ==
  IF k = "Skill" THEN id # <<>> /\ ~StartsWith(id, ".") ELSE EndsWith(id, AgentSuffix)

\* C33: whatever the pattern file holds, every identifier listCheckedOutSkills returns is
\* non-empty and does not begin with '.', every identifier listCheckedOutSubagents
\* returns ends with '.agent.md', the output is made of the lines' identifiers in the
\* order of the lines, and a line without the kind's expected suffix gives no identifier
C33_DecodedIdentifiers ==
  pc = "decoded" =>
    /\ \A i \in 1..Len(codecOut) : WellFormedId(kind, codecOut[i])
    /\ codecOut = DecodedLines(kind, PatternLines(sparseFile))
    /\ \A i \in 1..Len(PatternLines(sparseFile)) :
         LET line == PatternLines(sparseFile)[i]
         IN ~ExpectedSuffix(kind, line) => DecodedLine(kind, line) = <<>>

NoDuplicates(seq) == \A i, j \in 1..Len(seq) : seq[i] = seq[j] => i = j

\* C34: as long as no key has changed it, and when Enter confirms it unchanged, the
\* selection of the prompt is the set of the installed identifiers when some are
\* installed, and the set of all catalog identifiers when none is
C34_InitialSelection ==
  (pc \in {"gitignore", "select", "apply"} /\ keys = 0) =>
    /\ NoDuplicates(selected)
    /\ installed # <<>> => Range(selected) = Range(installed)
    /\ installed = <<>> => Range(selected) = Range(Catalog(kind))

C34_Witness ==
  /\ pc = "apply"
  /\ keys = 0
  /\ installed = <<SkillA, SkillZ>>
  /\ selected = <<SkillA, SkillZ>>

AllCatalogSelected == Range(Catalog(kind)) \subseteq Range(selected)

\* C35: the 'A' key, pressed when every catalog item is selected, deselects every item;
\* pressed in any other state it selects every catalog item; also when identifiers that
\* are not in the catalog are pre-selected
C35_ToggleAll ==
  [][ handleKeypress_a =>
        IF AllCatalogSelected
        THEN selected' = <<>>
        ELSE Range(Catalog(kind)) \subseteq Range(selected')
    ]_vars

\* C36: the selection the prompt returns holds only identifiers of the catalog shown,
\* also when the installed list holds identifiers the catalog does not have
C36_ReturnedWithinCatalog ==
  pc = "apply" => Range(selected) \subseteq Range(Catalog(kind))

\* the run has read the installed list of a target on which an earlier run of the tool
\* got past the applier's precondition
DetectedAfterApplier ==
  /\ pc \in {"gitignore", "select", "apply"}
  /\ prev.op # "none"
  /\ prev.err \notin PreconditionErrors

\* C37, as stated: a target reported as installed with some identifiers is one whose
\* most recent Materialize or Reconcile succeeded with these identifiers as selection
C37_AsClaimed ==
  (DetectedAfterApplier /\ installed # <<>>) =>
    (prev.err = "none" /\ Range(installed) = Range(prev.sel))

\* C37, amended: the installed list a run reports is what the pattern file left by the
\* most recent Materialize or Reconcile decodes to, whether or not that operation
\* succeeded: its selection after a success, after a Reconcile whose read-tree failed
\* and after a Materialize whose checkout failed in a directory that was kept; what the
\* file left by the clone decodes to ('*' and '!/*' for skills) after a failed
\* sparse-checkout init in a kept directory; nothing after any other failure
C37_DetectionFollowsPatternFile ==
  DetectedAfterApplier =>
    /\ installed = listCheckedOut(kind, prev.file)
    /\ prev.err \in {"none", "read-tree"} => installed = prev.sel
    /\ prev.err \in {"checkout", "checkout -B"} =>
         installed = (IF gitDir THEN prev.sel ELSE <<>>)
    /\ prev.err = "sparse-checkout init" =>
         installed = (IF prev.file = InitPatterns THEN listCheckedOut(kind, InitPatterns)
                      ELSE <<>>)
    /\ prev.err \in {"clone", "init", "remote add", "fetch"} => installed = <<>>

C37_Witness ==
  /\ DetectedAfterApplier
  /\ prev.op = "Materialize"
  /\ prev.err = "checkout"
  /\ installed = prev.sel
  /\ isManageMode

\* the selection prompt is open: its promise has not settled
PromptOpen == pc = "select"

\* C38: the selection prompt handles keys and writes to the terminal only while it is
\* open: the re-render scheduled by an Enter on an empty selection runs only before the
\* prompt settles, a key is handled only before it settles, and a settled
\* prompt does not open again
C38_SettledPromptIsSilent ==
  [][ /\ timerRender => PromptOpen
      /\ keys' > keys => PromptOpen
      /\ (PromptOpen' /\ ~PromptOpen) => pc \in {"path", "gitignore"}
    ]_vars

\* a Materialize on a path that did not exist has failed at one of its steps
FailedOnNewPath == StepFailed /\ op = "Materialize" /\ ~before.dirExists

\* C39, as stated: after a failed Materialize on a path that did not exist, neither the
\* target directory nor a directory above it that the call created remains
C39_AsClaimed ==
  FailedOnNewPath => (~dirExists /\ parentDir # "created")

\* C39, amended: after a failed Materialize on a path that did not exist, the removal
\* of the target directory has been attempted; when it succeeded the target, its .git
\* and its pattern file are gone; the directory above the target exists, and the one
\* the call's recursive mkdirSync created is left in place whether the removal of the
\* target succeeded or not
C39_TargetRemovedParentKept ==
  /\ (op = "Materialize" /\ Includes(trace, "fs:mkdir")) => parentDir \in {"present", "created"}
  /\ FailedOnNewPath =>
       /\ trace[Len(trace)] \in {"fs:rm", "fs:rm (failed)"}
       /\ trace[Len(trace)] = "fs:rm" => Target = NoTarget
       /\ trace[Len(trace)] = "fs:rm (failed)" => dirExists

C39_Witness ==
  /\ FailedOnNewPath
  /\ trace[Len(trace)] = "fs:rm"
  /\ ~dirExists
  /\ parentDir = "created"

Occurrences(s, sub) ==
  Cardinality({i \in 1..(Len(s) - Len(sub) + 1) : SubSeq(s, i, i + Len(sub) - 1) = sub})

\* .gitignore changes only in the step after a Materialize that resolved, for a user who
\* said yes; a second addToGitignore of a path changes nothing and no path is listed twice
GitignoreFrame ==
  /\ [][gitignore' # gitignore =>
          /\ pc = "ignore"
          /\ op = "Materialize" /\ err = "none" /\ ~isManageMode
          /\ trace[Len(trace)] = "progress:Done!"
          /\ shouldGitignore
          /\ gitignore' = addToGitignore(gitignore, InstallPath(kind))
          /\ isInGitignore(gitignore', InstallPath(kind))]_vars
  /\ [](\A k \in Kinds :
          /\ addToGitignore(addToGitignore(gitignore, InstallPath(k)), InstallPath(k))
               = addToGitignore(gitignore, InstallPath(k))
          /\ gitignore # NoFile =>
               Occurrences(gitignore, NormalizedPath(InstallPath(k))) <= 1)

====
